---- MODULE Spec2Model ----
(***************************************************************************)
(* Model of the hexAlgo deductive solver (src/src/solver.rs, misc.rs).     *)
(*                                                                         *)
(* The solver loop, the Progress tracker and the Constraints registry are  *)
(* translated from solver.rs.  The multiverse, the constraint builders,    *)
(* the puzzle definition and the environment (modules multiverse,          *)
(* constraint, defn, env) are not part of the sources at hand; they are    *)
(* modelled from their specification (spec.md 3, 4.2, 4.3, 6).             *)
(*                                                                         *)
(* A coordinate is the pair <<q, r>> (s = -(q+r) is derived, misc.rs:8-15).*)
(* A world of a multiverse is the set of the scope's coordinates it        *)
(* colours Blue; the other coordinates of the scope are Black.             *)
(* A map (BTreeMap) is a TLA+ function; its key set is its DOMAIN.         *)
(***************************************************************************)
EXTENDS Integers, Sequences, FiniteSets, TLC

(***************************************************************************)
(* Bounds of the model.                                                    *)
(***************************************************************************)
\* Largest number of initially unknown cells of a puzzle.
MaxUnknown == 4
\* Largest number of clue-carrying cells (Line, Zone6, Zone18) of a puzzle.
MaxClues == 3

(***************************************************************************)
(* misc.rs: coordinates.                                                   *)
(***************************************************************************)
InvalidCoords == <<>>

\* The range of the i16 fields q and r.
I16_MIN == -32768
I16_MAX == 32767

\* Coords::new: fatal (here: InvalidCoords) unless q + r + s = 0 and q and r
\* convert to i16 (try_into().unwrap()).
Coords_new(q, r, s) ==
    IF q + r + s # 0 THEN InvalidCoords
    ELSE IF q < I16_MIN \/ q > I16_MAX \/ r < I16_MIN \/ r > I16_MAX THEN InvalidCoords
    ELSE <<q, r>>

Coords_q(c) == c[1]
Coords_r(c) == c[2]
Coords_s(c) == 0 - c[1] - c[2]

\* derive(Ord) on {q, r}: lexicographic.
CoordsLess(a, b) == a[1] < b[1] \/ (a[1] = b[1] /\ a[2] < b[2])

\* neighbors6 listing the six neighbours counter-clockwise from top.
neighbors6_counter_clockwise(c) ==
    LET q == Coords_q(c)
        r == Coords_r(c)
        s == Coords_s(c)
    IN << Coords_new(q + 0, r - 1, s + 1),
          Coords_new(q - 1, r + 0, s + 1),
          Coords_new(q - 1, r + 1, s + 0),
          Coords_new(q + 0, r + 1, s - 1),
          Coords_new(q + 1, r + 0, s - 1),
          Coords_new(q + 1, r - 1, s + 0) >>

neighbors6(c) ==
    LET q == Coords_q(c)
        r == Coords_r(c)
        s == Coords_s(c)
    IN << Coords_new(q + 0, r - 1, s + 1),
          Coords_new(q + 1, r - 1, s + 0),
          Coords_new(q + 1, r + 0, s - 1),
          Coords_new(q + 0, r + 1, s - 1),
          Coords_new(q - 1, r + 1, s + 0),
          Coords_new(q - 1, r + 0, s + 1) >>

neighbors18(c) ==
    LET q == Coords_q(c)
        r == Coords_r(c)
        s == Coords_s(c)
    IN << Coords_new(q + 0, r - 1, s + 1),
          Coords_new(q + 1, r - 1, s + 0),
          Coords_new(q + 1, r + 0, s - 1),
          Coords_new(q + 0, r + 1, s - 1),
          Coords_new(q - 1, r + 1, s + 0),
          Coords_new(q - 1, r + 0, s + 1),
          Coords_new(q + 0, r - 2, s + 2),
          Coords_new(q + 1, r - 2, s + 1),
          Coords_new(q + 2, r - 2, s + 0),
          Coords_new(q + 2, r - 1, s - 1),
          Coords_new(q + 2, r + 0, s - 2),
          Coords_new(q + 1, r + 1, s - 2),
          Coords_new(q + 0, r + 2, s - 2),
          Coords_new(q - 1, r + 2, s - 1),
          Coords_new(q - 2, r + 2, s + 0),
          Coords_new(q - 2, r + 1, s + 1),
          Coords_new(q - 2, r + 0, s + 2),
          Coords_new(q - 1, r - 1, s + 2) >>

\* The synthetic key of the global blue-count constraint, Coords::new(999, 0, -999).
UNIQUE_COORDS == Coords_new(999, 0, -999)

SeqRange(sq) == {sq[i] : i \in 1..Len(sq)}

(***************************************************************************)
(* defn: colours and cells (spec.md 3).                                    *)
(***************************************************************************)
Color == {"Blue", "Black"}
Modifiers == {"Plain", "Consecutive", "NonConsecutive"}
\* The three line directions, as the step from one cell of the line to the next.
Orientations == {<<0, 1>>, <<1, 0>>, <<-1, 1>>}

\* Every cell is a record of one shape; a field a variant does not have
\* holds a fixed filler value.
CellEmpty == [kind |-> "Empty", revealed |-> FALSE, color |-> "Black", m |-> "Plain", o |-> <<0, 1>>]
CellLine(m, o) == [kind |-> "Line", revealed |-> FALSE, color |-> "Black", m |-> m, o |-> o]
CellZone0(revealed, color) == [kind |-> "Zone0", revealed |-> revealed, color |-> color, m |-> "Plain", o |-> <<0, 1>>]
CellZone6(revealed, m) == [kind |-> "Zone6", revealed |-> revealed, color |-> "Black", m |-> m, o |-> <<0, 1>>]
CellZone18(revealed) == [kind |-> "Zone18", revealed |-> revealed, color |-> "Blue", m |-> "Plain", o |-> <<0, 1>>]

\* defn::color_of_cell: Some(colour) of a clueable cell, None otherwise.
color_of_cell(cell) ==
    CASE cell.kind = "Zone0" -> cell.color
      [] cell.kind = "Zone6" -> "Black"
      [] cell.kind = "Zone18" -> "Blue"
      [] OTHER -> "None"

\* The clueable cells of a definition: the cells that have a colour.
Clueable(d) == {c \in DOMAIN d : d[c].kind \in {"Zone0", "Zone6", "Zone18"}}
TrueBlues(d) == {c \in Clueable(d) : color_of_cell(d[c]) = "Blue"}
Revealed(d) == {c \in Clueable(d) : d[c].revealed}

(***************************************************************************)
(* multiverse (spec.md 4.2).                                               *)
(***************************************************************************)
Multiverse_empty == [scope |-> {}, worlds |-> {{}}]

\* state(): Empty iff the scope is empty; Stuck iff no world but a scope.
Mv_state(mv) ==
    IF mv.scope = {} THEN "Empty"
    ELSE IF mv.worlds = {} THEN "Stuck"
    ELSE "Running"

\* invariants(): the coordinates of the scope that have the same colour in
\* every world, with that colour.
Mv_invariants(mv) ==
    LET allBlue == {c \in mv.scope : \A w \in mv.worlds : c \in w}
        allBlack == {c \in mv.scope : \A w \in mv.worlds : c \notin w}
    IN [c \in allBlue \cup allBlack |-> IF c \in allBlue THEN "Blue" ELSE "Black"]

\* learn(coord, color): the worlds that give coord that colour, without coord.
Mv_learn(mv, c, col) ==
    IF c \notin mv.scope THEN mv
    ELSE [scope |-> mv.scope \ {c},
          worlds |-> {w \ {c} : w \in {v \in mv.worlds : (c \in v) = (col = "Blue")}}]

\* merge(other): the pairs of worlds that agree on the shared scope.
Mv_merge(a, b) ==
    [scope |-> a.scope \cup b.scope,
     worlds |-> {p[1] \cup p[2] :
                   p \in {x \in a.worlds \X b.worlds :
                            x[1] \cap b.scope = x[2] \cap a.scope}}]

(***************************************************************************)
(* constraint: the builders (spec.md 4.3).                                 *)
(***************************************************************************)
\* The positions of sq whose cell is Blue in world w.
BluePositions(w, sq) == {i \in 1..Len(sq) : sq[i] \in w}

\* The blues of w form one contiguous run of sq (around the ring if cyclic).
IsRun(w, sq, cyclic) ==
    LET P == BluePositions(w, sq)
        n == Cardinality(P)
        L == Len(sq)
    IN \/ n = 0
       \/ \E s \in 1..L :
            IF cyclic
            THEN P = {((s + j - 1) % L) + 1 : j \in 0..(n - 1)}
            ELSE P = s..(s + n - 1)

\* A colouring w of the cells of sq satisfies the clue (count n, modifier m).
SatisfiesClue(w, sq, n, m, cyclic) ==
    /\ Cardinality(w) = n
    /\ CASE m = "Plain" -> TRUE
         [] m = "Consecutive" -> IsRun(w, sq, cyclic)
         [] m = "NonConsecutive" -> ~IsRun(w, sq, cyclic)

\* learn applied for every coordinate of S, with the colour col.
RECURSIVE Mv_learn_all(_, _, _)
Mv_learn_all(mv, S, col) ==
    IF S = {} THEN mv
    ELSE LET c == CHOOSE x \in S : TRUE
         IN Mv_learn_all(Mv_learn(mv, c, col), S \ {c}, col)

\* The multiverse of a clue over the clueable cells of sq: exactly the
\* colourings that satisfy the clue, the revealed cells learnt at once.
ClueMultiverse(d, sq, m, cyclic) ==
    LET scope == SeqRange(sq)
        n == Cardinality(scope \cap TrueBlues(d))
        full == [scope |-> scope,
                 worlds |-> {w \in SUBSET scope : SatisfiesClue(w, sq, n, m, cyclic)}]
        known == scope \cap Revealed(d)
    IN Mv_learn_all(Mv_learn_all(full, known \cap TrueBlues(d), "Blue"),
                    known \ TrueBlues(d), "Black")

IsClueable(d, c) == c \in Clueable(d)

\* How far a line clue reaches: enough steps to cross the grid.
LineReach == 3

\* The clueable cells along the direction o from the line clue at coords.
LineCells(d, coords, o) ==
    SelectSeq([k \in 1..LineReach |-> <<coords[1] + k * o[1], coords[2] + k * o[2]>>],
              LAMBDA c : IsClueable(d, c))

\* constraint::line
constraint_line(d, coords, o, m) == ClueMultiverse(d, LineCells(d, coords, o), m, FALSE)

\* constraint::zone6: the clueable cells of the ring, clockwise from top.
constraint_zone6(d, coords, m) ==
    ClueMultiverse(d, SelectSeq(neighbors6(coords), LAMBDA c : IsClueable(d, c)), m, TRUE)

\* constraint::zone18: the clueable cells of the two rings, blue count only.
constraint_zone18(d, coords) ==
    ClueMultiverse(d, SelectSeq(neighbors18(coords), LAMBDA c : IsClueable(d, c)), "Plain", FALSE)

\* constraint::global_blue_count: over the cells not known to be black, the
\* number of blues is the puzzle's total.
constraint_global_blue_count(d) ==
    LET scope == {c \in Clueable(d) : ~(d[c].revealed /\ color_of_cell(d[c]) = "Black")}
        n == Cardinality(TrueBlues(d))
    IN [scope |-> scope, worlds |-> {w \in SUBSET scope : Cardinality(w) = n}]

(***************************************************************************)
(* The puzzle definitions of the model.  Five boards:                      *)
(*  - the small board: four cells and a line slot, every cell any of the   *)
(*    clueable kinds (hidden or revealed), the clues plain;                *)
(*  - the wide board: five cells and two line slots, the cells hidden      *)
(*    colours or revealed zone-6 clues, for the chains of clues;           *)
(*  - the ring board: a zone-6 clue with four ring cells and a line of     *)
(*    three cells, with every modifier;                                    *)
(*  - the bridge board: two columns of two hidden cells, each under its    *)
(*    own line slot, and a cell between them that may be a zone-6 clue:    *)
(*    the two lines share no cell;                                         *)
(*  - the far board: a line clue over two hidden cells in the column       *)
(*    q = 1000, a key that the order of Coords puts after UNIQUE_COORDS.   *)
(***************************************************************************)
Zone0Kinds == {CellZone0(rv, col) : rv \in BOOLEAN, col \in Color}
PlainLineKinds == {CellEmpty} \cup {CellLine("Plain", o) : o \in Orientations}

SmallGrid == {<<0, 0>>, <<0, 1>>, <<1, 0>>, <<1, -1>>}
SmallGridKinds ==
    Zone0Kinds \cup {CellZone6(rv, "Plain") : rv \in BOOLEAN}
               \cup {CellZone18(rv) : rv \in BOOLEAN}
SmallBoard ==
    {g @@ (<<0, -1>> :> l) : g \in [SmallGrid -> SmallGridKinds], l \in PlainLineKinds}

WideGrid == {<<0, 0>>, <<0, 1>>, <<1, 0>>, <<1, 1>>, <<2, 1>>}
WideGridKinds ==
    {CellZone0(FALSE, "Blue"), CellZone0(FALSE, "Black"), CellZone6(TRUE, "Plain")}
WideBoard ==
    {g @@ (<<0, -1>> :> l1) @@ (<<-1, 0>> :> l2) :
        g \in [WideGrid -> WideGridKinds], l1 \in PlainLineKinds, l2 \in PlainLineKinds}

RingCells == {<<0, -1>>, <<1, -1>>, <<1, 0>>, <<0, 1>>}
RingBoard ==
    {g @@ (<<0, 0>> :> z) @@ (<<0, -2>> :> l) :
        g \in [RingCells -> Zone0Kinds],
        z \in {CellZone6(rv, m) : rv \in BOOLEAN, m \in Modifiers},
        l \in {CellEmpty} \cup {CellLine(m, <<0, 1>>) : m \in Modifiers}}

BridgeColumns == {<<0, 0>>, <<0, 1>>, <<2, 0>>, <<2, 1>>}
BridgeBoard ==
    {g @@ (<<1, 0>> :> z) @@ (<<0, -1>> :> l1) @@ (<<2, -1>> :> l2) :
        g \in [BridgeColumns -> {CellZone0(FALSE, col) : col \in Color}],
        z \in Zone0Kinds \cup {CellZone6(TRUE, "Plain")},
        l1 \in {CellEmpty, CellLine("Plain", <<0, 1>>)},
        l2 \in {CellEmpty, CellLine("Plain", <<0, 1>>)}}

FarColumn == {<<1000, 0>>, <<1000, 1>>}
FarBoard ==
    {g @@ (<<1000, -1>> :> CellLine("Plain", <<0, 1>>)) :
        g \in [FarColumn -> {CellZone0(FALSE, col) : col \in Color}]}

ClueCells(d) == {c \in DOMAIN d : d[c].kind \in {"Line", "Zone6", "Zone18"}}

\* The ground truth satisfies the modifier of every clue.
Consistent(d) ==
    \A c \in ClueCells(d) :
        LET sq == IF d[c].kind = "Line"
                  THEN LineCells(d, c, d[c].o)
                  ELSE SelectSeq(neighbors6(c), LAMBDA x : IsClueable(d, x))
            truth == SeqRange(sq) \cap TrueBlues(d)
        IN d[c].kind = "Zone18"
           \/ SatisfiesClue(truth, sq, Cardinality(truth), d[c].m, d[c].kind = "Zone6")

Defns ==
    {d \in SmallBoard \cup WideBoard \cup RingBoard \cup BridgeBoard \cup FarBoard :
        /\ Cardinality(Clueable(d) \ Revealed(d)) <= MaxUnknown
        /\ Cardinality(ClueCells(d)) <= MaxClues
        /\ Consistent(d)}

(***************************************************************************)
(* solver.rs: Progress.                                                    *)
(***************************************************************************)
\* Progress::of_defn
Progress_of_defn(d) ==
    [blues |-> {c \in Clueable(d) : d[c].revealed /\ color_of_cell(d[c]) = "Blue"},
     blacks |-> {c \in Clueable(d) : d[c].revealed /\ color_of_cell(d[c]) = "Black"},
     unknowns |-> {c \in Clueable(d) : ~d[c].revealed}]

\* Progress::is_solved
Progress_is_solved(p) == p.unknowns = {}

\* Progress::update that inserts into blues and blacks but forgets
\* self.unknowns.remove(&coords).
Progress_update_keep(p, findings) ==
    [blues |-> p.blues \cup {c \in DOMAIN findings : findings[c] = "Blue"},
     blacks |-> p.blacks \cup {c \in DOMAIN findings : findings[c] = "Black"},
     unknowns |-> p.unknowns]

\* Progress::update: every coordinate of the findings leaves unknowns and
\* enters the set of its colour.
Progress_update(p, findings) ==
    [blues |-> p.blues \cup {c \in DOMAIN findings : findings[c] = "Blue"},
     blacks |-> p.blacks \cup {c \in DOMAIN findings : findings[c] = "Black"},
     unknowns |-> p.unknowns \ DOMAIN findings]

(***************************************************************************)
(* solver.rs: Constraints.                                                 *)
(***************************************************************************)
\* Constraints::of_defn
Constraints_of_defn(d) ==
    LET lines == {c \in DOMAIN d : d[c].kind = "Line"}
        zones == {c \in DOMAIN d : d[c].kind \in {"Zone6", "Zone18"}}
    IN [constraints_hidden |->
            [c \in zones |-> IF d[c].kind = "Zone6"
                             THEN constraint_zone6(d, c, d[c].m)
                             ELSE constraint_zone18(d, c)],
        constraints_visible |->
            [c \in lines \cup {UNIQUE_COORDS} |->
                IF c = UNIQUE_COORDS
                THEN constraint_global_blue_count(d)
                ELSE constraint_line(d, c, d[c].o, d[c].m)],
        constraints_exhausted |-> {}]

\* Constraints::reveal that inserts into visible but forgets
\* self.constraints_hidden.remove(&k).
Constraints_reveal_keep(cs, visible_cells) ==
    LET moved == DOMAIN cs.constraints_hidden \cap visible_cells
    IN [constraints_hidden |-> cs.constraints_hidden,
        constraints_visible |->
            [k \in DOMAIN cs.constraints_visible \cup moved |->
                IF k \in moved THEN cs.constraints_hidden[k] ELSE cs.constraints_visible[k]],
        constraints_exhausted |-> cs.constraints_exhausted]

\* Constraints::reveal without the test visible_cells.contains(&k).
Constraints_reveal_all(cs, visible_cells) ==
    [constraints_hidden |-> <<>>,
     constraints_visible |->
        [k \in DOMAIN cs.constraints_visible \cup DOMAIN cs.constraints_hidden |->
            IF k \in DOMAIN cs.constraints_hidden
            THEN cs.constraints_hidden[k] ELSE cs.constraints_visible[k]],
     constraints_exhausted |-> cs.constraints_exhausted]

\* Constraints::reveal
Constraints_reveal(cs, visible_cells) ==
    LET moved == DOMAIN cs.constraints_hidden \cap visible_cells
    IN [constraints_hidden |->
            [k \in DOMAIN cs.constraints_hidden \ moved |-> cs.constraints_hidden[k]],
        constraints_visible |->
            [k \in DOMAIN cs.constraints_visible \cup moved |->
                IF k \in moved THEN cs.constraints_hidden[k] ELSE cs.constraints_visible[k]],
        constraints_exhausted |-> cs.constraints_exhausted]

\* The loop body of narrow with the two colours exchanged.
NarrowOne_swapped(mv, visible_cells, p) ==
    LET inter == mv.scope \cap visible_cells
    IN IF inter = {} THEN mv
       ELSE Mv_learn_all(Mv_learn_all(mv, inter \cap p.blues, "Black"),
                         inter \cap p.blacks, "Blue")

\* The loop body of narrow without its second loop, over the known blacks.
NarrowOne_blues_only(mv, visible_cells, p) ==
    LET inter == mv.scope \cap visible_cells
    IN IF inter = {} THEN mv
       ELSE Mv_learn_all(mv, inter \cap p.blues, "Blue")

\* The body of narrow's loop for one visible multiverse.
NarrowOne(mv, visible_cells, p) ==
    LET inter == mv.scope \cap visible_cells
    IN IF inter = {} THEN mv
       ELSE Mv_learn_all(Mv_learn_all(mv, inter \cap p.blues, "Blue"),
                         inter \cap p.blacks, "Black")

\* Constraints::narrow that learns nothing.
Constraints_narrow_skip(cs, visible_cells, p) == cs

\* Constraints::narrow
Constraints_narrow(cs, visible_cells, p) ==
    [cs EXCEPT !.constraints_visible =
        [k \in DOMAIN cs.constraints_visible |->
            NarrowOne(cs.constraints_visible[k], visible_cells, p)]]

\* A gc whose match takes State::Stuck for State::Running.
GcPanics_ignore(cs) == FALSE

\* Constraints::gc panics on a Stuck visible multiverse.
GcPanics(cs) ==
    \E k \in DOMAIN cs.constraints_visible : Mv_state(cs.constraints_visible[k]) = "Stuck"

\* Constraints::gc that never collects the global blue-count constraint.
Constraints_gc_keep_global(cs) ==
    LET empty == {k \in DOMAIN cs.constraints_visible \ {UNIQUE_COORDS} :
                    Mv_state(cs.constraints_visible[k]) = "Empty"}
    IN [constraints_hidden |-> cs.constraints_hidden,
        constraints_visible |->
            [k \in DOMAIN cs.constraints_visible \ empty |-> cs.constraints_visible[k]],
        constraints_exhausted |-> cs.constraints_exhausted \cup empty]

\* Constraints::gc (when it returns)
Constraints_gc(cs) ==
    LET empty == {k \in DOMAIN cs.constraints_visible :
                    Mv_state(cs.constraints_visible[k]) = "Empty"}
    IN [constraints_hidden |-> cs.constraints_hidden,
        constraints_visible |->
            [k \in DOMAIN cs.constraints_visible \ empty |-> cs.constraints_visible[k]],
        constraints_exhausted |-> cs.constraints_exhausted \cup empty]

\* is_solved that looks at constraints_hidden only.
Constraints_is_solved_hidden_only(cs) == DOMAIN cs.constraints_hidden = {}

\* Constraints::is_solved
Constraints_is_solved(cs) ==
    DOMAIN cs.constraints_visible = {} /\ DOMAIN cs.constraints_hidden = {}

\* The greatest coordinate of a non-empty set (BTreeMap order).
MaxCoords(S) == CHOOSE x \in S : \A y \in S : y = x \/ CoordsLess(y, x)
MinCoords(S) == CHOOSE x \in S : \A y \in S : y = x \/ CoordsLess(x, y)

\* The map built by inserting, in key order, the invariants of each
\* multiverse of the map mvs (keyed by Coords): a later insert overwrites
\* an earlier one.
CollectInvariants(mvs) ==
    LET inv(k) == Mv_invariants(mvs[k])
        coords == UNION {DOMAIN inv(k) : k \in DOMAIN mvs}
    IN [c \in coords |-> inv(MaxCoords({k \in DOMAIN mvs : c \in DOMAIN inv(k)}))[c]]

\* Two multiverses of the map report different colours for one coordinate.
InvariantsDisagree(mvs) ==
    \E k1, k2 \in DOMAIN mvs :
        \E c \in DOMAIN Mv_invariants(mvs[k1]) \cap DOMAIN Mv_invariants(mvs[k2]) :
            Mv_invariants(mvs[k1])[c] # Mv_invariants(mvs[k2])[c]

\* assert_eq!(Some(color), defn::color_of_cell(&defn[&coords])) fails for
\* some invariant of a multiverse of the map.
GroundTruthFails(mvs, d) ==
    \E k \in DOMAIN mvs :
        \E c \in DOMAIN Mv_invariants(mvs[k]) :
            c \notin DOMAIN d \/ Mv_invariants(mvs[k])[c] # color_of_cell(d[c])

\* Constraints::trivial_invariants (when no assertion fails)
Constraints_trivial_invariants(cs) ==
    CollectInvariants(cs.constraints_visible)

\* The assertions of trivial_invariants.
TrivialPanics(cs, d) ==
    InvariantsDisagree(cs.constraints_visible) \/ GroundTruthFails(cs.constraints_visible, d)

(***************************************************************************)
(* solver.rs: Constraints::compound_invariants.                            *)
(***************************************************************************)
\* Ord of BTreeSet<Coords>: lexicographic on the sorted elements.
KsetLess(A, B) ==
    /\ A # B
    /\ LET x == MinCoords((A \ B) \cup (B \ A))
       IN IF x \in A
          THEN \E y \in B : CoordsLess(x, y)
          ELSE ~(\E y \in A : CoordsLess(x, y))

MaxKset(S) == CHOOSE x \in S : \A y \in S : y = x \/ KsetLess(y, x)

\* The map built by inserting, in key order, the invariants of each group
\* of the working set (keyed by BTreeSet<Coords>).
CollectGroupInvariants(groups) ==
    LET inv(ks) == Mv_invariants(groups[ks])
        coords == UNION {DOMAIN inv(ks) : ks \in DOMAIN groups}
    IN [c \in coords |-> inv(MaxKset({ks \in DOMAIN groups : c \in DOMAIN inv(ks)}))[c]]

\* The safety cap of the widening loop.
ITERATION_CAP == 1000

\* The connection graph without the test for UNIQUE_COORDS in the loop over
\* the pairs and without connections.remove(UNIQUE_COORDS).
CompoundConnections_with_global(cs) ==
    LET vis == cs.constraints_visible
    IN [k \in DOMAIN vis |->
          {k2 \in DOMAIN vis : k2 # k /\ vis[k].scope \cap vis[k2].scope # {}}]

\* The connection graph: an edge between two visible constraints, neither
\* of them the global one, whose scopes are not disjoint; the global key
\* is removed from the graph.
CompoundConnections(cs) ==
    LET vis == cs.constraints_visible
    IN [k \in DOMAIN vis \ {UNIQUE_COORDS} |->
          {k2 \in DOMAIN vis \ {UNIQUE_COORDS} :
              k2 # k /\ vis[k].scope \cap vis[k2].scope # {}}]

\* The first working set: one group per visible constraint but the global one.
CompoundInitialGroups(cs) ==
    [ks \in {{k} : k \in DOMAIN cs.constraints_visible \ {UNIQUE_COORDS}} |->
        cs.constraints_visible[CHOOSE k \in ks : TRUE]]

\* The locals of compound_invariants before the loop.
CompoundLocals(cs) ==
    [connections |-> CompoundConnections(cs),
     constraints_groups |-> CompoundInitialGroups(cs),
     invariants |-> <<>>,
     difficulty |-> 2,
     iteration |-> 0]

NoCompoundLocals ==
    [connections |-> <<>>, constraints_groups |-> <<>>, invariants |-> <<>>,
     difficulty |-> 0, iteration |-> 0]

\* The neighbours of a group: the constraints connected to a member, not members.
GroupNeighbors(connections, kset_old) ==
    {k2 \in UNION {connections[k] : k \in kset_old \cap DOMAIN connections} :
        k2 \notin kset_old}

\* new_entries, as the pairs (old group, added constraint).
NewEntries(connections, snapshot) ==
    {e \in UNION {{<<kset_old, k_new>> : k_new \in GroupNeighbors(connections, kset_old)} :
                    kset_old \in DOMAIN snapshot} :
        (e[1] \cup {e[2]}) \notin DOMAIN snapshot}

\* The working set after one iteration without the retain that removes the
\* groups of the snapshot.
GrownGroups_keep_old(cs, connections, snapshot) ==
    LET entries == NewEntries(connections, snapshot)
        newkeys == {e[1] \cup {e[2]} : e \in entries}
        last(ks) == MaxKset({e[1] : e \in {x \in entries : x[1] \cup {x[2]} = ks}})
    IN [ks \in newkeys \cup DOMAIN snapshot |->
          IF ks \in DOMAIN snapshot THEN snapshot[ks]
          ELSE Mv_merge(snapshot[last(ks)],
                        cs.constraints_visible[CHOOSE k \in ks \ last(ks) : TRUE])]

\* The working set after one iteration: the new entries inserted in order
\* (the last insert of a key stays), the groups of the snapshot removed.
GrownGroups(cs, connections, snapshot) ==
    LET entries == NewEntries(connections, snapshot)
        newkeys == {e[1] \cup {e[2]} : e \in entries}
        last(ks) == MaxKset({e[1] : e \in {x \in entries : x[1] \cup {x[2]} = ks}})
    IN [ks \in newkeys |->
          Mv_merge(snapshot[last(ks)],
                   cs.constraints_visible[CHOOSE k \in ks \ last(ks) : TRUE])]

\* The loop body with difficulty += 1 placed before the breaks.
CompoundIteration_early_increment(cs, loc) ==
    LET groups == GrownGroups(cs, loc.connections, loc.constraints_groups)
    IN [connections |-> loc.connections,
        constraints_groups |-> groups,
        invariants |-> CollectGroupInvariants(groups),
        difficulty |-> loc.difficulty + 1,
        iteration |-> loc.iteration + 1]

\* One iteration of the loop after a successful poll: the locals after it.
CompoundIteration(cs, loc) ==
    LET groups == GrownGroups(cs, loc.connections, loc.constraints_groups)
        found == CollectGroupInvariants(groups)
        stop == DOMAIN found # {} \/ DOMAIN groups = {}
    IN [connections |-> loc.connections,
        constraints_groups |-> groups,
        invariants |-> found,
        difficulty |-> IF stop THEN loc.difficulty ELSE loc.difficulty + 1,
        iteration |-> loc.iteration + 1]

\* The loop is left after the iteration that produced loc.
CompoundBreaks(loc) ==
    \/ DOMAIN loc.invariants # {}
    \/ DOMAIN loc.constraints_groups = {}
    \/ loc.iteration > ITERATION_CAP

(***************************************************************************)
(* solver.rs: Constraints::global_invariants.                              *)
(***************************************************************************)
\* The keys of a map from the greatest to the least: values().rev().
RECURSIVE DescendingKeys(_)
DescendingKeys(S) ==
    IF S = {} THEN <<>>
    ELSE <<MaxCoords(S)>> \o DescendingKeys(S \ {MaxCoords(S)})

\* The fold without its first multiverse.
GlobalFoldOrder_skip_first(cs) == Tail(DescendingKeys(DOMAIN cs.constraints_visible))

\* The keys global_invariants folds over, in the order of the fold.
GlobalFoldOrder(cs) == DescendingKeys(DOMAIN cs.constraints_visible)

\* A fold step that merges two multiverses after one poll.
GlobalMergeStep_two(cs, g) ==
    LET one == Mv_merge(g.mv, cs.constraints_visible[Head(g.rest)])
    IN IF Len(g.rest) = 1
       THEN [g EXCEPT !.mv = one, !.rest = <<>>]
       ELSE [g EXCEPT !.mv = Mv_merge(one, cs.constraints_visible[g.rest[2]]),
                      !.rest = Tail(Tail(g.rest))]

\* One step of the fold after a successful poll.
GlobalMergeStep(cs, g) ==
    [g EXCEPT !.mv = Mv_merge(g.mv, cs.constraints_visible[Head(g.rest)]),
              !.rest = Tail(g.rest)]

\* The invariants reported once the fold is over.
GlobalResult(g) == Mv_invariants(g.mv)

GlobalPanics(g, d) ==
    \E c \in DOMAIN Mv_invariants(g.mv) :
        c \notin DOMAIN d \/ Mv_invariants(g.mv)[c] # color_of_cell(d[c])

NoGlobalFold == [mv |-> Multiverse_empty, rest |-> <<>>, polls0 |-> 0]

(***************************************************************************)
(* solver.rs: solve, one action per step of the loop.                      *)
(***************************************************************************)
VARIABLES
    defn,         \* the puzzle definition (read only)
    progress,     \* Progress
    constraints,  \* Constraints
    history,      \* Vec<Findings>
    difficulty,   \* the round's Difficulty, <<"Local", d>> or <<"Global", k>>
    invariants,   \* the round's invariants, a map Coords -> Color
    compound,     \* the locals of a running compound_invariants
    gfold,        \* the locals of a running global_invariants
    env,          \* the environment: polls counts check_timeout since reset_timer
    pc,           \* the position in solve
    outcome,      \* <<"Running">>, or what solve returned, or <<"Panic">>
    par,          \* the parallel section of a compound_invariants iteration
    call          \* a call of a function of the crate outside solve

vars == <<defn, progress, constraints, history, difficulty, invariants,
          compound, gfold, env, pc, outcome, par, call>>

\* No parallel section is open.
NoPar == [snapshot |-> <<>>, pending |-> {}, finished |-> <<>>, new_entries |-> <<>>]
\* No call outside solve.
NoCall == [fn |-> "none"]

Local(d) == <<"Local", d>>
Global(k) == <<"Global", k>>

VisibleCells(p) == p.blacks \cup p.blues

Init ==
    /\ defn \in Defns
    /\ progress = Progress_of_defn(defn)
    /\ constraints = Constraints_of_defn(defn)
    /\ history = <<>>
    /\ difficulty = <<"Unset", 0>>
    /\ invariants = <<>>
    /\ compound = NoCompoundLocals
    /\ gfold = NoGlobalFold
    /\ env = [polls |-> 0]
    /\ pc = "reveal"
    /\ outcome = <<"Running">>
    /\ par = NoPar
    /\ call = NoCall

\* A failed assertion or panic ends the program.
Panic(assertion) ==
    /\ pc' = "done"
    /\ outcome' = <<"Panic", assertion>>
    /\ UNCHANGED <<call, par, defn, progress, constraints, history, difficulty, invariants,
                   compound, gfold, env>>

\* return Outcome::Timeout
ReturnTimeout ==
    /\ pc' = "done"
    /\ outcome' = <<"Timeout">>

\* Outcome::Solved(history)
ReturnSolved ==
    /\ pc' = "done"
    /\ outcome' = <<"Solved", history>>

\* return Outcome::Unsolvable
ReturnUnsolvable ==
    /\ pc' = "done"
    /\ outcome' = <<"Unsolvable">>

\* Step 1
Reveal ==
    /\ pc = "reveal"
    /\ constraints' = Constraints_reveal(constraints, VisibleCells(progress))
    /\ pc' = "narrow"
    /\ UNCHANGED <<call, par, defn, progress, history, difficulty, invariants, compound, gfold,
                   env, outcome>>

\* Step 2
Narrow ==
    /\ pc = "narrow"
    /\ constraints' = Constraints_narrow(constraints, VisibleCells(progress), progress)
    /\ pc' = "gc"
    /\ UNCHANGED <<call, par, defn, progress, history, difficulty, invariants, compound, gfold,
                   env, outcome>>

\* Step 3
Gc ==
    /\ pc = "gc"
    /\ IF GcPanics(constraints)
       THEN Panic("stuck")
       ELSE /\ constraints' = Constraints_gc(constraints)
            /\ pc' = "check"
            /\ UNCHANGED <<call, par, defn, progress, history, difficulty, invariants, compound,
                           gfold, env, outcome>>

\* Step 4: assert!(constraints.is_solved()) when progress is solved,
\* assert!(!constraints.is_solved()) when it is not.
CheckSolved ==
    /\ pc = "check"
    /\ IF Progress_is_solved(progress) # Constraints_is_solved(constraints)
       THEN Panic(IF Progress_is_solved(progress) THEN "is_solved" ELSE "not_is_solved")
       ELSE /\ IF Progress_is_solved(progress)
               THEN ReturnSolved
               ELSE pc' = "trivial" /\ UNCHANGED outcome
            /\ UNCHANGED <<call, par, defn, progress, constraints, history, difficulty, invariants,
                           compound, gfold, env>>

\* Step 5.2 entered whatever step 5.1 found.
AfterTrivial_always(inv) == "compound"

\* Where solve goes with the invariants of the trivial or the compound tier.
AfterTrivial(inv) == IF DOMAIN inv = {} THEN "compound" ELSE "push"
AfterCompound(inv) == IF DOMAIN inv = {} THEN "global" ELSE "push"

\* Step 5.1
Trivial ==
    /\ pc = "trivial"
    /\ IF TrivialPanics(constraints, defn)
       THEN Panic("trivial_invariants")
       ELSE /\ invariants' = Constraints_trivial_invariants(constraints)
            /\ difficulty' = Local(1)
            /\ pc' = AfterTrivial(invariants')
            /\ UNCHANGED <<call, par, defn, progress, constraints, history, compound, gfold, env,
                           outcome>>

\* Step 5.2: env.reset_timer() and compound_invariants up to its loop; with
\* no group it returns at once.
CompoundStart ==
    /\ pc = "compound"
    /\ env' = [polls |-> 0]
    /\ LET loc == CompoundLocals(constraints)
       IN IF DOMAIN loc.constraints_groups = {}
          THEN /\ invariants' = loc.invariants
               /\ difficulty' = Local(loc.difficulty)
               /\ compound' = NoCompoundLocals
               /\ pc' = AfterCompound(invariants')
          ELSE /\ compound' = loc
               /\ pc' = "compound_loop"
               /\ UNCHANGED <<invariants, difficulty>>
    /\ UNCHANGED <<call, par, defn, progress, constraints, history, gfold, outcome>>

\* One iteration of the widening loop whose poll succeeds.
CompoundIter ==
    /\ pc = "compound_loop"
    /\ env' = [polls |-> env.polls + 1]
    /\ LET loc == CompoundIteration(constraints, compound)
       IN IF GroundTruthFails(loc.constraints_groups, defn)
          THEN /\ pc' = "done"
               /\ outcome' = <<"Panic", "compound_invariants">>
               /\ UNCHANGED <<invariants, difficulty, compound>>
          ELSE /\ UNCHANGED outcome
               /\ IF CompoundBreaks(loc)
                  THEN /\ invariants' = loc.invariants
                       /\ difficulty' = Local(loc.difficulty)
                       /\ compound' = [NoCompoundLocals EXCEPT !.iteration = loc.iteration]
                       /\ pc' = AfterCompound(invariants')
                  ELSE /\ compound' = loc
                       /\ pc' = "compound_loop"
                       /\ UNCHANGED <<invariants, difficulty>>
    /\ UNCHANGED <<call, par, defn, progress, constraints, history, gfold>>

\* One iteration of the widening loop whose poll reports the timeout.
CompoundTimeout ==
    /\ pc = "compound_loop"
    /\ env' = [polls |-> env.polls + 1]
    /\ compound' = [compound EXCEPT !.iteration = compound.iteration + 1]
    /\ ReturnTimeout
    /\ UNCHANGED <<call, par, defn, progress, constraints, history, difficulty, invariants, gfold>>

\* The global difficulty counting the local constraints only.
GlobalDifficulty_locals(cs) ==
    Global(Cardinality(DOMAIN cs.constraints_visible \ {UNIQUE_COORDS}))

\* The global difficulty counting the hidden constraints as well.
GlobalDifficulty_with_hidden(cs) ==
    Global(Cardinality(DOMAIN cs.constraints_visible)
             + Cardinality(DOMAIN cs.constraints_hidden))

\* Difficulty::Global(constraints.constraints_visible.len())
GlobalDifficulty(cs) == Global(Cardinality(DOMAIN cs.constraints_visible))

\* Step 5.3, up to the fold of global_invariants.
GlobalStart ==
    /\ pc = "global"
    /\ difficulty' = GlobalDifficulty(constraints)
    /\ gfold' = [mv |-> Multiverse_empty, rest |-> GlobalFoldOrder(constraints),
                 polls0 |-> env.polls]
    /\ pc' = "global_fold"
    /\ UNCHANGED <<call, par, defn, progress, constraints, history, invariants, compound, env,
                   outcome>>

\* One merge of the fold, its poll succeeding.
GlobalMerge ==
    /\ pc = "global_fold"
    /\ gfold.rest # <<>>
    /\ env' = [polls |-> env.polls + 1]
    /\ gfold' = GlobalMergeStep(constraints, gfold)
    /\ UNCHANGED <<call, par, defn, progress, constraints, history, difficulty, invariants,
                   compound, pc, outcome>>

\* The poll before a merge reports the timeout.
GlobalTimeout ==
    /\ pc = "global_fold"
    /\ gfold.rest # <<>>
    /\ env' = [polls |-> env.polls + 1]
    /\ ReturnTimeout
    /\ UNCHANGED <<call, par, defn, progress, constraints, history, difficulty, invariants,
                   compound, gfold>>

\* The end of global_invariants and of step 5.3.
GlobalFinish ==
    /\ pc = "global_fold"
    /\ gfold.rest = <<>>
    /\ IF GlobalPanics(gfold, defn)
       THEN Panic("global_invariants")
       ELSE /\ invariants' = GlobalResult(gfold)
            /\ IF DOMAIN invariants' = {}
               THEN ReturnUnsolvable
               ELSE pc' = "push" /\ UNCHANGED outcome
            /\ UNCHANGED <<call, par, defn, progress, constraints, history, difficulty, compound,
                           gfold, env>>

\* history.push(Findings { difficulty, cells })
Findings(diff, inv) == [difficulty |-> diff, cells |-> DOMAIN inv]

PushFindings ==
    /\ pc = "push"
    /\ history' = Append(history, Findings(difficulty, invariants))
    /\ pc' = "update"
    /\ UNCHANGED <<call, par, defn, progress, constraints, difficulty, invariants, compound,
                   gfold, env, outcome>>

\* Step 6
Update ==
    /\ pc = "update"
    /\ progress' = Progress_update(progress, invariants)
    /\ pc' = "reveal"
    /\ UNCHANGED <<call, par, defn, constraints, history, difficulty, invariants, compound,
                   gfold, env, outcome>>

Next ==
    \/ Reveal
    \/ Narrow
    \/ Gc
    \/ CheckSolved
    \/ Trivial
    \/ CompoundStart
    \/ CompoundIter
    \/ CompoundTimeout
    \/ GlobalStart
    \/ GlobalMerge
    \/ GlobalTimeout
    \/ GlobalFinish
    \/ PushFindings
    \/ Update

Spec == Init /\ [][Next]_vars

(***************************************************************************)
(* solve on a ring board with any modifier on its clues, also one the      *)
(* ground truth does not satisfy: the puzzles on which a multiverse can    *)
(* run out of worlds.                                                      *)
(***************************************************************************)
\* The ring board with a second line slot, across the top of the ring.
AnyBoard ==
    {d @@ (<<-1, -1>> :> l) : d \in RingBoard, l \in {CellEmpty, CellLine("Plain", <<1, 0>>)}}

AnyDefns ==
    {d \in AnyBoard :
        /\ Cardinality(Clueable(d) \ Revealed(d)) <= MaxUnknown
        /\ Cardinality(ClueCells(d)) <= MaxClues}

InitAny ==
    /\ defn \in AnyDefns
    /\ progress = Progress_of_defn(defn)
    /\ constraints = Constraints_of_defn(defn)
    /\ history = <<>>
    /\ difficulty = <<"Unset", 0>>
    /\ invariants = <<>>
    /\ compound = NoCompoundLocals
    /\ gfold = NoGlobalFold
    /\ env = [polls |-> 0]
    /\ pc = "reveal"
    /\ outcome = <<"Running">>
    /\ par = NoPar
    /\ call = NoCall

AnySpec == InitAny /\ [][Next]_vars

(***************************************************************************)
(* solver.rs: the parallel section of a compound_invariants iteration      *)
(* (constraints_snapshot.par_iter().flat_map(..).collect()), one task per  *)
(* group of the snapshot, the tasks run in any order.                      *)
(***************************************************************************)
\* The elements of a set from the least to the greatest: BTreeSet iteration.
RECURSIVE AscendingKeys(_)
AscendingKeys(S) ==
    IF S = {} THEN <<>>
    ELSE <<MinCoords(S)>> \o AscendingKeys(S \ {MinCoords(S)})

\* The closure of flat_map for the group kset_old of the snapshot: its
\* results vector, the pairs (kset_new, merged).
TaskResults(cs, connections, snapshot, kset_old) ==
    LET neighbors == AscendingKeys(GroupNeighbors(connections, kset_old))
        kept == SelectSeq(neighbors,
                          LAMBDA k_new : (kset_old \cup {k_new}) \notin DOMAIN snapshot)
    IN [i \in 1..Len(kept) |->
          <<kset_old \cup {kept[i]},
            Mv_merge(snapshot[kset_old], cs.constraints_visible[kept[i]])>>]

\* constraints_groups.insert(kset_new, mv_new) for every new entry, in the
\* order of the vector.
RECURSIVE InsertEntries(_, _)
InsertEntries(groups, entries) ==
    IF entries = <<>> THEN groups
    ELSE LET e == Head(entries)
         IN InsertEntries([ks \in DOMAIN groups \cup {e[1]} |->
                              IF ks = e[1] THEN e[2] ELSE groups[ks]],
                          Tail(entries))

\* The working set after the inserts and the retain.
JoinGroups(groups, snapshot, new_entries) ==
    LET all == InsertEntries(groups, new_entries)
    IN [ks \in DOMAIN all \ DOMAIN snapshot |-> all[ks]]

\* A collect that does not wait for the tasks still running.
ParJoined_early(p) == TRUE

\* collect() returns once every task has delivered its results.
ParJoined(p) == p.pending = {}

\* The locals after the invariants of the new working set are extracted.
CompoundAfterJoin(loc, groups) ==
    LET found == CollectGroupInvariants(groups)
        stop == DOMAIN found # {} \/ DOMAIN groups = {}
    IN [connections |-> loc.connections,
        constraints_groups |-> groups,
        invariants |-> found,
        difficulty |-> IF stop THEN loc.difficulty ELSE loc.difficulty + 1,
        iteration |-> loc.iteration]

\* The head of an iteration whose poll succeeds: the snapshot is taken and
\* the parallel section opens.
ParFork ==
    /\ pc = "compound_loop"
    /\ env' = [polls |-> env.polls + 1]
    /\ compound' = [compound EXCEPT !.iteration = @ + 1]
    /\ par' = [snapshot |-> compound.constraints_groups,
               pending |-> DOMAIN compound.constraints_groups,
               finished |-> <<>>,
               new_entries |-> <<>>]
    /\ pc' = "compound_par"
    /\ UNCHANGED <<call, defn, progress, constraints, history, difficulty, invariants,
                   gfold, outcome>>

\* One task of the parallel section runs and delivers its results.  The
\* results enter the vector in the order in which the tasks finish, which
\* includes the order of the snapshot.
ParTask ==
    /\ pc = "compound_par"
    /\ \E kset_old \in par.pending :
         par' = [par EXCEPT
                   !.pending = @ \ {kset_old},
                   !.finished = Append(@, kset_old),
                   !.new_entries = @ \o TaskResults(constraints, compound.connections,
                                                    par.snapshot, kset_old)]
    /\ UNCHANGED <<call, defn, progress, constraints, history, difficulty, invariants,
                   compound, gfold, env, pc, outcome>>

\* The parallel section has joined: inserts, retain, invariants, breaks.
ParJoin ==
    /\ pc = "compound_par"
    /\ ParJoined(par)
    /\ par' = NoPar
    /\ LET groups == JoinGroups(compound.constraints_groups, par.snapshot, par.new_entries)
           loc == CompoundAfterJoin(compound, groups)
       IN IF GroundTruthFails(groups, defn)
          THEN /\ pc' = "done"
               /\ outcome' = <<"Panic", "compound_invariants">>
               /\ UNCHANGED <<invariants, difficulty, compound>>
          ELSE /\ UNCHANGED outcome
               /\ IF CompoundBreaks(loc)
                  THEN /\ invariants' = loc.invariants
                       /\ difficulty' = Local(loc.difficulty)
                       /\ compound' = [NoCompoundLocals EXCEPT !.iteration = loc.iteration]
                       /\ pc' = AfterCompound(invariants')
                  ELSE /\ compound' = loc
                       /\ pc' = "compound_loop"
                       /\ UNCHANGED <<invariants, difficulty>>
    /\ UNCHANGED <<call, defn, progress, constraints, history, gfold, env>>

\* solve with the parallel section of the widening loop spelled out.
NextPar ==
    \/ Reveal
    \/ Narrow
    \/ Gc
    \/ CheckSolved
    \/ Trivial
    \/ CompoundStart
    \/ ParFork
    \/ ParTask
    \/ ParJoin
    \/ CompoundTimeout
    \/ GlobalStart
    \/ GlobalMerge
    \/ GlobalTimeout
    \/ GlobalFinish
    \/ PushFindings
    \/ Update

ParSpec == Init /\ [][NextPar]_vars

(***************************************************************************)
(* misc.rs: n_choose_k.  A u64 is kept as four 16-bit limbs, the least     *)
(* significant first, so that the arithmetic is that of 64 bits.           *)
(***************************************************************************)
\* Largest n of a call of n_choose_k.
MaxN == 68

LimbBase == 65536

\* The u64 of a number below 2^16.
U64(x) == <<x, 0, 0, 0>>

\* u64::wrapping_mul in the place of checked_mul: never None.
checked_mul_wrapping(a, m) ==
    LET p1 == a[1] * m
        p2 == a[2] * m + (p1 \div LimbBase)
        p3 == a[3] * m + (p2 \div LimbBase)
        p4 == a[4] * m + (p3 \div LimbBase)
    IN [value |-> <<p1 % LimbBase, p2 % LimbBase, p3 % LimbBase, p4 % LimbBase>>,
        overflow |-> FALSE]

\* u64::checked_mul by a factor below 2^15: the low 64 bits of the product
\* and whether the product overflows 64 bits (checked_mul is then None).
checked_mul(a, m) ==
    LET p1 == a[1] * m
        p2 == a[2] * m + (p1 \div LimbBase)
        p3 == a[3] * m + (p2 \div LimbBase)
        p4 == a[4] * m + (p3 \div LimbBase)
    IN [value |-> <<p1 % LimbBase, p2 % LimbBase, p3 % LimbBase, p4 % LimbBase>>,
        overflow |-> (p4 \div LimbBase) # 0]

\* u64 division by a divisor below 2^15: the quotient and the remainder
\* the division drops.
U64DivRem(a, d) ==
    LET r4 == a[4]
        r3 == (r4 % d) * LimbBase + a[3]
        r2 == (r3 % d) * LimbBase + a[2]
        r1 == (r2 % d) * LimbBase + a[1]
    IN [quot |-> <<r1 \div d, r2 \div d, r3 \div d, r4 \div d>>, rem |-> r1 % d]

\* n_choose_k up to its loop: the panic on k > n, k folded to n - k.
NckEnter(n, k) ==
    IF k > n
    THEN [n |-> n, k |-> k, i |-> 0, result |-> U64(1), ret |-> "Panic"]
    ELSE [n |-> n, k |-> IF k > n - k THEN n - k ELSE k, i |-> 0, result |-> U64(1),
          ret |-> "Running"]

\* The loop with the division before the multiplication.
NckIter_divide_first(st) ==
    IF st.i >= st.k THEN [st EXCEPT !.ret = "Some"]
    ELSE LET fact == st.n - st.i
             quot == st.i + 1
             prod == checked_mul(U64DivRem(st.result, quot).quot, fact)
         IN IF prod.overflow
            THEN [st EXCEPT !.ret = "None"]
            ELSE [st EXCEPT !.result = prod.value, !.i = @ + 1]

\* One turn of the loop `for i in 0..k`, or the return after it.
NckIter(st) ==
    IF st.i >= st.k THEN [st EXCEPT !.ret = "Some"]
    ELSE LET fact == st.n - st.i
             quot == st.i + 1
             prod == checked_mul(st.result, fact)
         IN IF prod.overflow
            THEN [st EXCEPT !.ret = "None"]
            ELSE [st EXCEPT !.result = U64DivRem(prod.value, quot).quot, !.i = @ + 1]

RECURSIVE NckRun(_)
NckRun(st) == IF st.ret # "Running" THEN st ELSE NckRun(NckIter(st))

\* n_choose_k(n, k): <<"Some", v>>, <<"None">> or <<"Panic">>.
n_choose_k(n, k) ==
    LET st == NckRun(NckEnter(n, k))
    IN IF st.ret = "Some" THEN <<"Some", st.result>> ELSE <<st.ret>>

(***************************************************************************)
(* Calls of the functions of the crate outside solve: the arguments are    *)
(* drawn at the start, solve is not running.                               *)
(***************************************************************************)
solveVars == <<defn, progress, constraints, history, difficulty, invariants,
               compound, gfold, env, pc, outcome, par>>

\* solve is not running.
InitNoSolve ==
    /\ defn = <<>>
    /\ progress = [blues |-> {}, blacks |-> {}, unknowns |-> {}]
    /\ constraints = [constraints_hidden |-> <<>>, constraints_visible |-> <<>>,
                      constraints_exhausted |-> {}]
    /\ history = <<>>
    /\ difficulty = <<"Unset", 0>>
    /\ invariants = <<>>
    /\ compound = NoCompoundLocals
    /\ gfold = NoGlobalFold
    /\ env = [polls |-> 0]
    /\ pc = "idle"
    /\ outcome = <<"Running">>
    /\ par = NoPar

\* The calls of n_choose_k of the model: every n up to MaxN, every k up to
\* n + 1.
NckCalls ==
    {[fn |-> "n_choose_k", args |-> <<n, k>>, at |-> "called",
      st |-> [n |-> n, k |-> k, i |-> 0, result |-> U64(1), ret |-> "Called"]] :
        n \in 0..MaxN, k \in 0..(MaxN + 1)}

\* n_choose_k is entered.
NckCall ==
    /\ call.fn = "n_choose_k"
    /\ call.at = "called"
    /\ call' = [call EXCEPT !.at = "loop", !.st = NckEnter(call.args[1], call.args[2])]
    /\ UNCHANGED solveVars

\* One turn of its loop, or its return.
NckLoop ==
    /\ call.fn = "n_choose_k"
    /\ call.at = "loop"
    /\ call.st.ret = "Running"
    /\ call' = [call EXCEPT !.st = NckIter(call.st)]
    /\ UNCHANGED solveVars

(***************************************************************************)
(* solver.rs: the summary of an Outcome.                                   *)
(***************************************************************************)
\* Option<u32>
OptNone == <<"None">>
OptSome(v) == <<"Some", v>>

\* The arm of the match that keeps the difficulty of the last findings.
map_or_max_overwrite(prev_max, diff) == OptSome(diff)

\* Some(prev_max.map_or(diff, |prev_max| prev_max.max(diff)))
map_or_max(prev_max, diff) ==
    IF prev_max = OptNone THEN OptSome(diff)
    ELSE OptSome(IF prev_max[2] >= diff THEN prev_max[2] ELSE diff)

\* match findings.difficulty { Global(diff) => .., Local(diff) => .. }
DifficultyMatch(acc, findings) ==
    IF findings.difficulty[1] = "Global"
    THEN [acc EXCEPT !.max_global = map_or_max(@, findings.difficulty[2])]
    ELSE [acc EXCEPT !.max_local = map_or_max(@, findings.difficulty[2])]

\* The loop of difficulty_of_findings_vec.
RECURSIVE MaximaLoop(_, _)
MaximaLoop(findings_vec, acc) ==
    IF findings_vec = <<>> THEN acc
    ELSE MaximaLoop(Tail(findings_vec), DifficultyMatch(acc, Head(findings_vec)))

\* difficulty_of_findings_vec: (max_local, max_global)
difficulty_of_findings_vec(findings_vec) ==
    LET acc == MaximaLoop(findings_vec, [max_local |-> OptNone, max_global |-> OptNone])
    IN <<acc.max_local, acc.max_global>>

\* The loop of Display for Solved: steps += 1, then the match.
RECURSIVE DisplayLoop(_, _)
DisplayLoop(findings_vec, acc) ==
    IF findings_vec = <<>> THEN acc
    ELSE DisplayLoop(Tail(findings_vec),
                     DifficultyMatch([acc EXCEPT !.steps = @ + 1], Head(findings_vec)))

\* {:?} of an Option<u32>
DebugOption(o) == IF o = OptNone THEN "None" ELSE "Some(" \o ToString(o[2]) \o ")"

\* impl fmt::Display for Outcome
Outcome_fmt(oc) ==
    CASE oc[1] = "Unsolvable" -> "Requires additional rules"
      [] oc[1] = "Timeout" -> "Timeout"
      [] oc[1] = "Solved" ->
            LET acc == DisplayLoop(oc[2], [steps |-> 0, max_local |-> OptNone,
                                           max_global |-> OptNone])
            IN "Solved steps:" \o ToString(acc.steps)
                 \o " max-local-difficulty:" \o DebugOption(acc.max_local)
                 \o " max-global-difficulty:" \o DebugOption(acc.max_global)

\* Longest history and greatest difficulty of the summary calls.
MaxSteps == 3
MaxDifficulty == 3

RECURSIVE SeqsUpTo(_, _)
SeqsUpTo(S, n) ==
    IF n = 0 THEN {<<>>}
    ELSE LET shorter == SeqsUpTo(S, n - 1)
         IN shorter \cup {Append(sq, x) : sq \in shorter, x \in S}

\* The histories of the summary calls.
FindingsVecs ==
    SeqsUpTo({[difficulty |-> d, cells |-> {<<0, 0>>}] :
                 d \in {Local(n) : n \in 1..MaxDifficulty}
                        \cup {Global(n) : n \in 1..MaxDifficulty}},
             MaxSteps)

SummaryCalls ==
    {[fn |-> "fmt", args |-> <<oc>>, at |-> "called", ret |-> ""] :
        oc \in {<<"Unsolvable">>, <<"Timeout">>} \cup {<<"Solved", fv>> : fv \in FindingsVecs}}
    \cup {[fn |-> "difficulty_of_findings_vec", args |-> <<fv>>, at |-> "called",
           ret |-> <<>>] : fv \in FindingsVecs}

\* format!("{}", outcome)
FmtCall ==
    /\ call.fn = "fmt"
    /\ call.at = "called"
    /\ call' = [call EXCEPT !.at = "returned", !.ret = Outcome_fmt(call.args[1])]
    /\ UNCHANGED solveVars

DifficultyCall ==
    /\ call.fn = "difficulty_of_findings_vec"
    /\ call.at = "called"
    /\ call' = [call EXCEPT !.at = "returned",
                            !.ret = difficulty_of_findings_vec(call.args[1])]
    /\ UNCHANGED solveVars

(***************************************************************************)
(* misc.rs: calls of neighbors6 and neighbors18.                           *)
(***************************************************************************)
\* How far from 0 and from the ends of i16 the coordinates of the calls lie.
MaxCoord == 2

CallCoordValues ==
    (-MaxCoord..MaxCoord) \cup (I16_MIN..(I16_MIN + MaxCoord))
                         \cup ((I16_MAX - MaxCoord)..I16_MAX)

NeighborsCalls ==
    {[fn |-> f, args |-> <<Coords_new(q, r, 0 - q - r)>>, at |-> "called", ret |-> <<>>] :
        f \in {"neighbors6", "neighbors18"}, q \in CallCoordValues, r \in CallCoordValues}

\* The array a neighbours function returns, or the panic of a Coords::new
\* in it.
ArrayOrPanic(array) ==
    IF InvalidCoords \in SeqRange(array) THEN <<"Panic">> ELSE <<"Ok", array>>

Neighbors6Call ==
    /\ call.fn = "neighbors6"
    /\ call.at = "called"
    /\ call' = [call EXCEPT !.at = "returned", !.ret = ArrayOrPanic(neighbors6(call.args[1]))]
    /\ UNCHANGED solveVars

Neighbors18Call ==
    /\ call.fn = "neighbors18"
    /\ call.at = "called"
    /\ call' = [call EXCEPT !.at = "returned", !.ret = ArrayOrPanic(neighbors18(call.args[1]))]
    /\ UNCHANGED solveVars

(***************************************************************************)
(* solver.rs: the widening loop of compound_invariants on a chain of       *)
(* clues.  A chain of n clues: clue i is over the unknown cells i and      *)
(* i + 1 and asks for one blue among them, so clue i is connected to       *)
(* clues i - 1 and i + 1 only, and no group of clues has an invariant      *)
(* (its two worlds alternate).  After j iterations the working set holds   *)
(* the runs of j + 1 consecutive clues.  The loop is modelled by the size  *)
(* of the groups instead of the groups, which lets it run up to the cap.   *)
(***************************************************************************)
\* The lengths of the chains: short ones and the ones around the cap.
ChainLengths ==
    {1, 2, 3, ITERATION_CAP - 1, ITERATION_CAP, ITERATION_CAP + 1, ITERATION_CAP + 2}

\* constraints_groups.len() when the groups are runs of size clues of a
\* chain of n clues.
ChainGroupsLen(n, size) == IF size > n THEN 0 ELSE n - size + 1

\* compound_invariants up to its loop.
ChainEnter(n) ==
    [n |-> n, size |-> 1, difficulty |-> 2, iteration |-> 0, ret |-> "Running"]

\* One iteration of the loop, the poll succeeding: every group takes in a
\* neighbour, the groups of the snapshot are removed, no invariant is
\* found; then the breaks.
ChainIter(st) ==
    LET iteration == st.iteration + 1
        size == st.size + 1
    IN IF ChainGroupsLen(st.n, size) = 0
       THEN [st EXCEPT !.iteration = iteration, !.size = size, !.ret = "Ok"]
       ELSE [st EXCEPT !.iteration = iteration, !.size = size,
                       !.difficulty = st.difficulty + 1,
                       !.ret = IF iteration > ITERATION_CAP THEN "Ok" ELSE "Running"]

ChainCalls ==
    {[fn |-> "compound_invariants", args |-> <<n>>, at |-> "called",
      st |-> [n |-> n, size |-> 0, difficulty |-> 0, iteration |-> 0, ret |-> "Called"]] :
        n \in ChainLengths}

\* compound_invariants is entered on a chain.
ChainCall ==
    /\ call.fn = "compound_invariants"
    /\ call.at = "called"
    /\ call' = [call EXCEPT !.at = "loop", !.st = ChainEnter(call.args[1])]
    /\ UNCHANGED solveVars

\* One iteration whose poll succeeds.
ChainLoop ==
    /\ call.fn = "compound_invariants"
    /\ call.at = "loop"
    /\ call.st.ret = "Running"
    /\ call' = [call EXCEPT !.st = ChainIter(call.st)]
    /\ UNCHANGED solveVars

\* One iteration whose poll reports the timeout.
ChainTimeout ==
    /\ call.fn = "compound_invariants"
    /\ call.at = "loop"
    /\ call.st.ret = "Running"
    /\ call' = [call EXCEPT !.st.iteration = call.st.iteration + 1, !.st.ret = "Timeout"]
    /\ UNCHANGED solveVars

\* The calls outside solve.
Calls == NckCalls \cup SummaryCalls \cup NeighborsCalls \cup ChainCalls

InitCall ==
    /\ InitNoSolve
    /\ call \in Calls

NextCall ==
    \/ NckCall
    \/ NckLoop
    \/ FmtCall
    \/ DifficultyCall
    \/ Neighbors6Call
    \/ Neighbors18Call
    \/ ChainCall
    \/ ChainLoop
    \/ ChainTimeout

CallSpec == InitCall /\ [][NextCall]_vars

(***************************************************************************)
(* Properties.                                                             *)
(***************************************************************************)
\* The unknown cells of the puzzle before the first round.
InitialUnknowns == Progress_of_defn(defn).unknowns

\* C1: solve needs at most as many deduction rounds as there were unknown
\* cells at the start: every Findings of the history stands for at least
\* one cell that left unknowns, so the history (also the one returned in
\* Solved) never has more entries than there were unknown cells.
C1_SolvedWithinUnknowns ==
    /\ Len(history) <= Cardinality(InitialUnknowns)
    /\ pc # "update" =>
         Len(history) + Cardinality(progress.unknowns) <= Cardinality(InitialUnknowns)
    /\ outcome[1] = "Solved" =>
         /\ Len(outcome[2]) <= Cardinality(InitialUnknowns)
         /\ progress.unknowns = {}

\* C1: a puzzle solved one cell per round, in as many rounds as unknown cells.
C1_Witness ==
    /\ outcome[1] = "Solved"
    /\ Len(outcome[2]) = Cardinality(InitialUnknowns)
    /\ Cardinality(InitialUnknowns) >= 3

\* C2: a round that reaches progress.update strictly shrinks unknowns:
\* the round's invariants are a non-empty set of unknown coordinates, and
\* the update removes exactly those.
C2_UnknownsStrictlyShrink ==
    [][pc = "update" =>
         /\ DOMAIN invariants # {}
         /\ DOMAIN invariants \subseteq progress.unknowns
         /\ progress'.unknowns \subseteq progress.unknowns
         /\ progress'.unknowns # progress.unknowns
         /\ progress'.unknowns = progress.unknowns \ DOMAIN invariants]_vars

\* C2: a second round starts with fewer, but still some, unknown cells.
C2_Witness ==
    /\ pc = "reveal"
    /\ Len(history) >= 1
    /\ progress.unknowns # {}
    /\ progress.unknowns # InitialUnknowns
    /\ progress.unknowns \subseteq InitialUnknowns

\* The colour the definition gives a cell ("None" off the clueable cells).
TrueColor(c) == IF c \in DOMAIN defn THEN color_of_cell(defn[c]) ELSE "None"

\* C3: every invariant a tier returns has the colour of the definition, so
\* do the cells moved into blues and blacks, and none of the ground-truth
\* or cross-constraint assertions of the three invariant functions fails.
C3_GroundTruthAgreement ==
    /\ \A c \in DOMAIN invariants : invariants[c] = TrueColor(c)
    /\ \A c \in progress.blues : TrueColor(c) = "Blue"
    /\ \A c \in progress.blacks : TrueColor(c) = "Black"
    /\ pc = "trivial" => ~TrivialPanics(constraints, defn)
    /\ pc = "compound_loop" =>
         ~GroundTruthFails(CompoundIteration(constraints, compound).constraints_groups, defn)
    /\ (pc = "global_fold" /\ gfold.rest = <<>>) => ~GlobalPanics(gfold, defn)
    /\ outcome[1] = "Panic" =>
         outcome[2] \notin {"trivial_invariants", "compound_invariants", "global_invariants"}

\* C3: findings of the compound and of the global tier, of both colours,
\* have been applied.
C3_Witness ==
    /\ pc = "reveal"
    /\ \E j, k \in 1..Len(history) :
         /\ history[j].difficulty[1] = "Local" /\ history[j].difficulty[2] >= 2
         /\ history[k].difficulty[1] = "Global"
    /\ (progress.blues \ Progress_of_defn(defn).blues) # {}
    /\ (progress.blacks \ Progress_of_defn(defn).blacks) # {}

\* C4: blues, blacks and unknowns partition the clueable cells of the
\* definition, and a cell only ever moves from unknowns to blues or blacks.
C4_ProgressPartition ==
    /\ [](/\ progress.blues \cap progress.blacks = {}
          /\ progress.blues \cap progress.unknowns = {}
          /\ progress.blacks \cap progress.unknowns = {}
          /\ progress.blues \cup progress.blacks \cup progress.unknowns = Clueable(defn))
    /\ [][/\ progress.blues \subseteq progress'.blues
          /\ progress.blacks \subseteq progress'.blacks
          /\ progress'.unknowns \subseteq progress.unknowns]_vars

\* C4: cells have moved from unknowns into blues and into blacks.
C4_Witness ==
    /\ Len(history) >= 2
    /\ pc = "reveal"
    /\ (progress.blues \cap InitialUnknowns) # {}
    /\ (progress.blacks \cap InitialUnknowns) # {}
    /\ progress.unknowns # {}

HiddenKeys == DOMAIN constraints.constraints_hidden
VisibleKeys == DOMAIN constraints.constraints_visible
ExhaustedKeys == constraints.constraints_exhausted

\* C5: a constraint key only moves Hidden -> Visible -> Exhausted: the keys
\* that are visible or exhausted stay so and are never hidden, and the
\* exhausted keys stay exhausted and are never visible.
C5_ForwardOnly ==
    /\ []((VisibleKeys \cup ExhaustedKeys) \cap HiddenKeys = {})
    /\ [](ExhaustedKeys \cap VisibleKeys = {})
    /\ [][/\ (VisibleKeys \cup ExhaustedKeys) \subseteq (VisibleKeys' \cup ExhaustedKeys')
          /\ ExhaustedKeys \subseteq ExhaustedKeys'
          /\ HiddenKeys' \subseteq HiddenKeys]_vars

\* C5: a constraint that started hidden has been revealed and exhausted,
\* while another one is still visible and a third still hidden.
C5_Witness ==
    /\ (ExhaustedKeys \cap DOMAIN Constraints_of_defn(defn).constraints_hidden) # {}
    /\ (VisibleKeys \cap DOMAIN Constraints_of_defn(defn).constraints_hidden) # {}
    /\ HiddenKeys # {}

(***************************************************************************)
(* The tiers, computed from the visible constraints alone.                 *)
(***************************************************************************)
LocalKeys == VisibleKeys \ {UNIQUE_COORDS}

\* The merge of the visible multiverses of the keys K.
RECURSIVE MergeAll(_)
MergeAll(K) ==
    IF K = {} THEN Multiverse_empty
    ELSE LET k == CHOOSE x \in K : TRUE
         IN Mv_merge(MergeAll(K \ {k}), constraints.constraints_visible[k])

AsPairs(f) == {<<c, f[c]>> : c \in DOMAIN f}
Deductions(K) == AsPairs(Mv_invariants(MergeAll(K)))

ScopesMeet(a, b) ==
    constraints.constraints_visible[a].scope
        \cap constraints.constraints_visible[b].scope # {}

\* The keys of K reached from R through intersecting scopes.
RECURSIVE ReachedFrom(_, _)
ReachedFrom(K, R) ==
    LET more == R \cup {k \in K : \E r \in R : ScopesMeet(k, r)}
    IN IF more = R THEN R ELSE ReachedFrom(K, more)

IsConnected(K) == K # {} /\ ReachedFrom(K, {CHOOSE k \in K : TRUE}) = K

\* The connected groups of n non-global visible constraints.
ConnectedGroups(n) ==
    {K \in SUBSET LocalKeys : Cardinality(K) = n /\ IsConnected(K)}

\* No single visible constraint, the global one included, has an invariant.
TrivialEmpty == \A k \in VisibleKeys : Deductions({k}) = {}
\* No connected group of two or more non-global constraints has one.
CompoundEmpty ==
    \A n \in 2..Cardinality(LocalKeys) : \A K \in ConnectedGroups(n) : Deductions(K) = {}
\* No non-global constraint has one, alone or merged with others.
NoLocalDeduction == \A K \in (SUBSET LocalKeys) \ {{}} : Deductions(K) = {}
\* The global blue-count constraint has one by itself.
GlobalAloneForces == UNIQUE_COORDS \in VisibleKeys /\ Deductions({UNIQUE_COORDS}) # {}
\* The merge of all the visible constraints has none.
GlobalEmpty == Deductions(VisibleKeys) = {}

C7_SmallestGroup ==
    /\ (pc = "push" /\ difficulty[1] = "Local" /\ difficulty[2] >= 2) =>
         /\ \A n \in 2..(difficulty[2] - 1) :
              \A K \in ConnectedGroups(n) : Deductions(K) = {}
         /\ \E K \in ConnectedGroups(difficulty[2]) : Deductions(K) # {}
         /\ AsPairs(invariants) =
              UNION {Deductions(K) : K \in ConnectedGroups(difficulty[2])}
    /\ (pc \in {"push", "global"} /\ TrivialEmpty
          /\ \E K \in ConnectedGroups(2) : Deductions(K) # {}) =>
         /\ difficulty = Local(2)
         /\ pc = "push"
         /\ DOMAIN invariants # {}

\* C7: a deduction that needs a group of three constraints.
C7_Witness ==
    /\ pc = "push"
    /\ difficulty = Local(3)
    /\ \E K \in ConnectedGroups(3) : Deductions(K) # {}
    /\ ConnectedGroups(2) # {}

\* C8: compound_invariants runs only after an empty trivial tier, the
\* global tier only after an empty trivial and an empty compound tier, and
\* the difficulty of the findings names the tier they come from.
C8_TierEscalation ==
    /\ pc \in {"compound", "compound_loop"} => TrivialEmpty
    /\ pc \in {"global", "global_fold"} => TrivialEmpty /\ CompoundEmpty
    /\ pc = "push" =>
         /\ difficulty = Local(1) <=> ~TrivialEmpty
         /\ (difficulty[1] = "Local" /\ difficulty[2] >= 2)
              <=> (TrivialEmpty /\ ~CompoundEmpty)
         /\ difficulty[1] = "Global" <=> (TrivialEmpty /\ CompoundEmpty)
         /\ difficulty = Local(1) =>
              AsPairs(invariants) = UNION {Deductions({k}) : k \in VisibleKeys}
         /\ difficulty[1] = "Global" => AsPairs(invariants) = Deductions(VisibleKeys)

\* C8: findings of the global tier, after a compound tier that widened twice.
C8_Witness ==
    /\ pc = "push"
    /\ difficulty[1] = "Global"
    /\ compound.iteration >= 2
    /\ Len(history) >= 1

\* The cells of the findings recorded so far.
HistoryCells == UNION {history[i].cells : i \in 1..Len(history)}

\* Unknown cells remain and none of the three tiers has a deduction.
AllTiersEmpty ==
    progress.unknowns # {} /\ TrivialEmpty /\ CompoundEmpty /\ GlobalEmpty

\* C9: solve returns Unsolvable exactly when, with unknown cells left, the
\* three tiers all came back empty: never while a tier has a deduction,
\* always once the fold ends empty; progress then holds the findings of
\* the earlier rounds and nothing else.
C9_UnsolvableIffAllTiersEmpty ==
    /\ [](outcome[1] = "Unsolvable" =>
            /\ AllTiersEmpty
            /\ progress.unknowns = InitialUnknowns \ HistoryCells)
    /\ []((pc \in {"push", "update"} \/ outcome[1] = "Solved") => ~AllTiersEmpty)
    /\ [][(pc = "global_fold" /\ gfold.rest = <<>> /\ AllTiersEmpty) =>
            outcome' = <<"Unsolvable">>]_vars
    /\ [][outcome[1] = "Unsolvable" => progress' = progress]_vars

\* C9: Unsolvable after a round that had findings and a compound tier that ran.
C9_Witness ==
    /\ outcome[1] = "Unsolvable"
    /\ Len(history) >= 1
    /\ compound.iteration >= 1
    /\ Cardinality(VisibleKeys) >= 2

\* C10: the token is polled once per widening iteration and once per merge
\* of the fold; a solve that timed out returns Timeout alone, without the
\* history, and progress holds only the findings of the earlier rounds.
C10_PollsAndTimeout ==
    /\ pc \in {"compound_loop", "global"} => env.polls = compound.iteration
    /\ pc = "global_fold" =>
         env.polls = gfold.polls0 + (Cardinality(VisibleKeys) - Len(gfold.rest))
    /\ outcome[1] = "Timeout" =>
         /\ outcome = <<"Timeout">>
         /\ pc = "done"
         /\ env.polls >= 1
         /\ progress.unknowns = InitialUnknowns \ HistoryCells

\* C10: a timeout at the third merge of a fold, after a round with findings.
C10_Witness ==
    /\ outcome[1] = "Timeout"
    /\ Len(history) >= 1
    /\ gfold.polls0 + 3 = env.polls
    /\ Len(gfold.rest) >= 1

\* The keys of the registry built from the definition.
InitialHiddenKeys == DOMAIN Constraints_of_defn(defn).constraints_hidden
InitialVisibleKeys == DOMAIN Constraints_of_defn(defn).constraints_visible

\* C11: when progress is solved after the reveal, narrow and gc of a round,
\* the registry is solved as well: nothing is hidden, nothing is visible
\* (the global blue-count constraint included) and every constraint built
\* from the definition is exhausted; assert!(constraints.is_solved()) never
\* fails and Solved is returned with such a registry.
C11_SolvedRegistry ==
    /\ (pc = "check" /\ Progress_is_solved(progress)) =>
         /\ Constraints_is_solved(constraints)
         /\ HiddenKeys = {}
         /\ VisibleKeys = {}
         /\ UNIQUE_COORDS \in ExhaustedKeys
         /\ ExhaustedKeys = InitialHiddenKeys \cup InitialVisibleKeys
    /\ outcome # <<"Panic", "is_solved">>
    /\ outcome[1] = "Solved" => Constraints_is_solved(constraints)

\* C11: the last round of a solve of several rounds, whose registry held a
\* hidden clue at the start and a line clue.
C11_Witness ==
    /\ pc = "check"
    /\ Progress_is_solved(progress)
    /\ Len(history) >= 2
    /\ InitialHiddenKeys # {}
    /\ Cardinality(InitialVisibleKeys) >= 2
    /\ Constraints_is_solved(constraints)

\* The locals a sequential run of the iteration under way would leave.
SequentialIteration ==
    CompoundIteration(constraints, [compound EXCEPT !.iteration = @ - 1])

\* C12: while the parallel section is open the working set, the connection
\* graph and the registry keep the values the tasks read (the snapshot is
\* the working set), every mutation of the working set happens at the join,
\* and whatever the order in which the tasks ran, the working set, the
\* invariants and the difficulty after the join are those of the iteration
\* run sequentially.
C12_ParallelDeterminism ==
    /\ [](pc = "compound_par" =>
            /\ compound.constraints_groups = par.snapshot
            /\ SeqRange(par.finished) \cup par.pending = DOMAIN par.snapshot
            /\ par.pending = {} =>
                 JoinGroups(compound.constraints_groups, par.snapshot, par.new_entries)
                     = SequentialIteration.constraints_groups)
    /\ [][(pc = "compound_par" /\ pc' = "compound_par") =>
            /\ compound' = compound
            /\ constraints' = constraints
            /\ par'.snapshot = par.snapshot]_vars
    /\ [][(pc = "compound_par" /\ pc' # "compound_par") =>
            /\ constraints' = constraints
            /\ outcome' = outcome
            /\ IF CompoundBreaks(SequentialIteration)
               THEN /\ invariants' = SequentialIteration.invariants
                    /\ difficulty' = Local(SequentialIteration.difficulty)
                    /\ compound'.iteration = SequentialIteration.iteration
               ELSE /\ compound' = SequentialIteration
                    /\ pc' = "compound_loop"]_vars

\* C12: a parallel section of three tasks that finished out of the order
\* of the snapshot and delivered the same new group twice.
C12_Witness ==
    /\ pc = "compound_par"
    /\ par.pending = {}
    /\ Len(par.finished) >= 3
    /\ KsetLess(par.finished[2], par.finished[1])
    /\ \E i, j \in 1..Len(par.new_entries) :
         i # j /\ par.new_entries[i][1] = par.new_entries[j][1]

\* The sum of two u64 and whether it overflows 64 bits.
U64Add(a, b) ==
    LET s1 == a[1] + b[1]
        s2 == a[2] + b[2] + (s1 \div LimbBase)
        s3 == a[3] + b[3] + (s2 \div LimbBase)
        s4 == a[4] + b[4] + (s3 \div LimbBase)
    IN [value |-> <<s1 % LimbBase, s2 % LimbBase, s3 % LimbBase, s4 % LimbBase>>,
        overflow |-> (s4 \div LimbBase) # 0]

\* C13: a call n_choose_k(n, k) with k > n is fatal and no other is; a
\* returned Some(v) obeys Pascal's triangle (v = 1 for k = 0 and k = n,
\* else v = C(n-1, k-1) + C(n-1, k), both of them returned as Some), it is
\* the value returned for (n, n - k), and no division of the loop drops a
\* remainder.
C13_Binomial ==
    call.fn = "n_choose_k" =>
        LET n == call.args[1]
            k == call.args[2]
            st == call.st
        IN /\ call.at = "loop" => (st.ret = "Panic" <=> k > n)
           /\ (st.ret = "Running" /\ st.i < st.k) =>
                LET prod == checked_mul(st.result, st.n - st.i)
                IN ~prod.overflow => U64DivRem(prod.value, st.i + 1).rem = 0
           /\ st.ret = "Some" =>
                /\ (k = 0 \/ k = n) => st.result = U64(1)
                /\ (0 < k /\ k < n) =>
                     LET a == n_choose_k(n - 1, k - 1)
                         b == n_choose_k(n - 1, k)
                     IN /\ a[1] = "Some"
                        /\ b[1] = "Some"
                        /\ U64Add(a[2], b[2]) = [value |-> st.result, overflow |-> FALSE]
                /\ n_choose_k(n, n - k) = <<"Some", st.result>>

\* C13: a returned coefficient beyond 48 bits, asked for with k > n - k.
C13_Witness ==
    /\ call.fn = "n_choose_k"
    /\ call.st.ret = "Some"
    /\ call.args[2] > call.args[1] - call.args[2]
    /\ call.args[2] < call.args[1]
    /\ call.st.result[4] > 0

\* The difficulties d of the entries of a history tagged tag.
TaggedDifficulties(findings_vec, tag) ==
    {findings_vec[i].difficulty[2] :
        i \in {j \in 1..Len(findings_vec) : findings_vec[j].difficulty[1] = tag}}

\* The greatest of them, None when there is none.
MaxTagged(findings_vec, tag) ==
    LET D == TaggedDifficulties(findings_vec, tag)
    IN IF D = {} THEN OptNone ELSE OptSome(CHOOSE d \in D : \A e \in D : e <= d)

\* C14: the summary of Solved(history) reports as steps the length of the
\* history, as max-local-difficulty the greatest d of its Local(d) entries
\* and as max-global-difficulty the greatest k of its Global(k) entries
\* (None without such an entry); difficulty_of_findings_vec returns the
\* same two maxima.
C14_Summary ==
    /\ (call.fn = "fmt" /\ call.at = "returned" /\ call.args[1][1] = "Solved") =>
         LET h == call.args[1][2]
         IN /\ call.ret = "Solved steps:" \o ToString(Len(h))
                            \o " max-local-difficulty:" \o DebugOption(MaxTagged(h, "Local"))
                            \o " max-global-difficulty:"
                            \o DebugOption(MaxTagged(h, "Global"))
            /\ difficulty_of_findings_vec(h) = <<MaxTagged(h, "Local"), MaxTagged(h, "Global")>>
    /\ (call.fn = "difficulty_of_findings_vec" /\ call.at = "returned") =>
         call.ret = <<MaxTagged(call.args[1], "Local"), MaxTagged(call.args[1], "Global")>>

\* C14: the summary of a history of three rounds whose greatest local
\* difficulty is not that of its last local round.
C14_Witness ==
    /\ call.fn = "fmt"
    /\ call.at = "returned"
    /\ call.args[1][1] = "Solved"
    /\ call.args[1][2] = <<[difficulty |-> Local(2), cells |-> {<<0, 0>>}],
                           [difficulty |-> Local(1), cells |-> {<<0, 0>>}],
                           [difficulty |-> Global(3), cells |-> {<<0, 0>>}]>>
    /\ call.ret = "Solved steps:3 max-local-difficulty:Some(2) max-global-difficulty:Some(3)"

\* The distance of two hexagons in cube coordinates.
Abs(x) == IF x < 0 THEN 0 - x ELSE x
HexDistance(a, b) ==
    (Abs(a[1] - b[1]) + Abs(a[2] - b[2]) + Abs((a[1] + a[2]) - (b[1] + b[2]))) \div 2

\* The centre of a hexagon on the screen in the flat layout, in units of
\* half a hexagon: x grows to the right, y grows to the bottom.
ScreenX(c) == 3 * c[1]
ScreenY(c) == 2 * c[2] + c[1]

\* The six directions, clockwise from top, as (sign of dx, sign of dy).
ClockwiseFromTop == <<<<0, -1>>, <<1, -1>>, <<1, 1>>, <<0, 1>>, <<-1, 1>>, <<-1, -1>>>>
Sign(x) == IF x < 0 THEN -1 ELSE IF x > 0 THEN 1 ELSE 0

\* The array is what neighbors6(c) is said to return.
IsNeighbors6(c, array) ==
    /\ Len(array) = 6
    /\ \A i \in 1..6 :
         /\ array[i] # InvalidCoords
         /\ array[i][1] + array[i][2] + Coords_s(array[i]) = 0
         /\ HexDistance(c, array[i]) = 1
         /\ <<Sign(ScreenX(array[i]) - ScreenX(c)), Sign(ScreenY(array[i]) - ScreenY(c))>>
              = ClockwiseFromTop[i]
    /\ \A i, j \in 1..6 : i # j => array[i] # array[j]

\* The array is what neighbors18(c) is said to return.
IsNeighbors18(c, array) ==
    /\ Len(array) = 18
    /\ \A i \in 1..18 : array[i] # InvalidCoords
    /\ \A i, j \in 1..18 : i # j => array[i] # array[j]
    /\ SeqRange(array) =
         {x \in ((c[1] - 3)..(c[1] + 3)) \X ((c[2] - 3)..(c[2] + 3)) :
             HexDistance(c, x) \in {1, 2}}

\* C15, as stated: for every coordinate, neighbors6 returns the six
\* neighbours clockwise from top and neighbors18 the 18 coordinates at
\* distance 1 or 2.
C15_NeighborsOfEveryCoordinate ==
    /\ (call.fn = "neighbors6" /\ call.at = "returned") =>
         call.ret[1] = "Ok" /\ IsNeighbors6(call.args[1], call.ret[2])
    /\ (call.fn = "neighbors18" /\ call.at = "returned") =>
         call.ret[1] = "Ok" /\ IsNeighbors18(call.args[1], call.ret[2])

\* Every coordinate within distance d of c has q and r in the range of i16.
FitsI16(c, d) ==
    /\ c[1] - d >= I16_MIN /\ c[1] + d <= I16_MAX
    /\ c[2] - d >= I16_MIN /\ c[2] + d <= I16_MAX

\* C15, amended: so it is for every coordinate whose neighbours have q and
\* r in the range of i16; for a coordinate with a neighbour outside of it
\* the call is fatal.
C15_NeighborsWithinI16 ==
    /\ (call.fn = "neighbors6" /\ call.at = "returned") =>
         IF FitsI16(call.args[1], 1)
         THEN call.ret[1] = "Ok" /\ IsNeighbors6(call.args[1], call.ret[2])
         ELSE call.ret = <<"Panic">>
    /\ (call.fn = "neighbors18" /\ call.at = "returned") =>
         IF FitsI16(call.args[1], 2)
         THEN call.ret[1] = "Ok" /\ IsNeighbors18(call.args[1], call.ret[2])
         ELSE call.ret = <<"Panic">>

\* C15: the 18 neighbours of a coordinate two steps from the end of i16.
C15_Witness ==
    /\ call.fn = "neighbors18"
    /\ call.at = "returned"
    /\ call.args[1] = <<I16_MAX - 2, I16_MIN + 2>>
    /\ call.ret[1] = "Ok"
    /\ IsNeighbors18(call.args[1], call.ret[2])

\* The positions of solve at which invariants are computed or held.
TierPositions == {"check", "trivial", "compound", "compound_loop", "global", "global_fold", "push"}

\* C16: wherever a tier computes invariants, the scope of every visible
\* multiverse, the global one included, holds unknown coordinates only, and
\* so do the groups of the widening loop and the multiverse of the fold;
\* narrow removes from every visible scope exactly the coordinates that
\* progress knows, also from the constraints revealed in the same round.
C16_ScopesAreUnknown ==
    /\ [](pc \in TierPositions =>
            \A k \in VisibleKeys :
                constraints.constraints_visible[k].scope \subseteq progress.unknowns)
    /\ [](pc = "compound_loop" =>
            \A ks \in DOMAIN compound.constraints_groups :
                compound.constraints_groups[ks].scope \subseteq progress.unknowns)
    /\ [](pc = "global_fold" => gfold.mv.scope \subseteq progress.unknowns)
    /\ [][pc = "narrow" =>
            \A k \in VisibleKeys :
                constraints'.constraints_visible[k].scope
                    = constraints.constraints_visible[k].scope
                        \ (progress.blues \cup progress.blacks)]_vars

\* C16: a clue revealed in this round, by a cell found in the last one,
\* whose scope lost known coordinates of both colours and kept unknown ones.
C16_Witness ==
    /\ pc = "trivial"
    /\ Len(history) >= 1
    /\ \E k \in VisibleKeys \cap InitialHiddenKeys \cap history[Len(history)].cells :
         LET built == Constraints_of_defn(defn).constraints_hidden[k].scope
         IN /\ built \cap (progress.blues \ Progress_of_defn(defn).blues) # {}
            /\ built \cap (progress.blacks \ Progress_of_defn(defn).blacks) # {}
            /\ constraints.constraints_visible[k].scope # {}

\* The visible keys whose multiverse is in the state st.
KeysInState(st) == {k \in VisibleKeys : Mv_state(constraints.constraints_visible[k]) = st}

\* C17: gc aborts the solve when a visible multiverse is Stuck; otherwise
\* it takes every Empty multiverse out of visible and records its key as
\* exhausted, keeps every Running one as it is, leaves hidden alone, and
\* leaves a registry whose visible multiverses are all Running and that a
\* second gc does not change.
C17_GcSortsByState ==
    /\ [][pc = "gc" =>
            IF KeysInState("Stuck") # {}
            THEN outcome' = <<"Panic", "stuck">> /\ pc' = "done"
            ELSE /\ outcome' = outcome
                 /\ pc' = "check"
                 /\ VisibleKeys' = KeysInState("Running")
                 /\ \A k \in VisibleKeys' :
                      constraints'.constraints_visible[k] = constraints.constraints_visible[k]
                 /\ ExhaustedKeys' = ExhaustedKeys \cup KeysInState("Empty")
                 /\ constraints'.constraints_hidden = constraints.constraints_hidden
                 /\ ~GcPanics(constraints')
                 /\ Constraints_gc(constraints') = constraints']_vars
    /\ [](pc \in TierPositions => KeysInState("Running") = VisibleKeys)

\* C17: a gc that aborted on a Stuck multiverse, in a later round, with an
\* Empty and a Running multiverse visible as well.
C17_Witness ==
    /\ outcome = <<"Panic", "stuck">>
    /\ Len(history) >= 1
    /\ KeysInState("Stuck") # {}
    /\ KeysInState("Empty") # {}
    /\ KeysInState("Running") # {}

\* The known coordinates of the scope of the visible multiverse k to which
\* no world of it gives the colour progress knows.
Contradicting(k) ==
    {c \in constraints.constraints_visible[k].scope
            \cap (progress.blues \cup progress.blacks) :
        \A w \in constraints.constraints_visible[k].worlds :
            (c \in w) # (c \in progress.blues)}

\* C18: when narrow learns, for a visible multiverse, a colour that none of
\* its worlds gives the coordinate, the multiverse is Stuck afterwards,
\* also when nothing of its scope is left, and the gc that follows aborts:
\* a multiverse without a world is never recorded as exhausted.
C18_ContradictionIsStuck ==
    [][/\ pc = "narrow" =>
            \A k \in VisibleKeys :
                /\ \A c \in Contradicting(k) :
                      Mv_state(Mv_learn(constraints.constraints_visible[k], c,
                                        IF c \in progress.blues THEN "Blue" ELSE "Black"))
                          = "Stuck"
                /\ Contradicting(k) # {} =>
                      Mv_state(constraints'.constraints_visible[k]) = "Stuck"
       /\ (pc = "gc" /\ \E k \in VisibleKeys :
                            constraints.constraints_visible[k].worlds = {}) =>
            outcome' = <<"Panic", "stuck">>]_vars

\* C19: reveal moves from hidden to visible exactly the constraints whose
\* carrier is in visible_cells, with their multiverse, leaves every other
\* entry of hidden, visible and exhausted as it was, and a second reveal
\* with the same visible_cells changes nothing.
C19_RevealMovesCarriers ==
    [][pc = "reveal" =>
         LET visible_cells == VisibleCells(progress)
             moved == HiddenKeys \cap visible_cells
         IN /\ HiddenKeys' = HiddenKeys \ visible_cells
            /\ VisibleKeys' = VisibleKeys \cup moved
            /\ \A k \in moved :
                 constraints'.constraints_visible[k] = constraints.constraints_hidden[k]
            /\ \A k \in VisibleKeys :
                 constraints'.constraints_visible[k] = constraints.constraints_visible[k]
            /\ \A k \in HiddenKeys' :
                 constraints'.constraints_hidden[k] = constraints.constraints_hidden[k]
            /\ ExhaustedKeys' = ExhaustedKeys
            /\ Constraints_reveal(constraints', visible_cells) = constraints']_vars

\* C19: after the reveal of a later round a clue has just become visible
\* with the multiverse it was built with, next to a constraint that was
\* visible before, and another clue is still hidden.
C19_Witness ==
    /\ pc = "narrow"
    /\ Len(history) >= 1
    /\ \E k \in VisibleKeys \cap InitialHiddenKeys \cap history[Len(history)].cells :
         constraints.constraints_visible[k] = Constraints_of_defn(defn).constraints_hidden[k]
    /\ VisibleKeys \cap InitialVisibleKeys # {}
    /\ HiddenKeys # {}

\* The registry without the global blue-count constraint.
WithoutGlobal(cs) ==
    [cs EXCEPT !.constraints_visible =
        [k \in DOMAIN cs.constraints_visible \ {UNIQUE_COORDS} |->
            cs.constraints_visible[k]]]

\* C20: in compound_invariants the key UNIQUE_COORDS is no node of the
\* connection graph, in no neighbour set and in no group of the working
\* set; two other visible constraints are connected iff their scopes
\* meet; and the locals before the loop and after every iteration are the
\* ones the registry without the global constraint gives.
C20_CompoundExcludesGlobal ==
    /\ pc = "compound" =>
          CompoundLocals(constraints) = CompoundLocals(WithoutGlobal(constraints))
    /\ pc = "compound_loop" =>
          /\ DOMAIN compound.connections = VisibleKeys \ {UNIQUE_COORDS}
          /\ \A k \in DOMAIN compound.connections :
                UNIQUE_COORDS \notin compound.connections[k]
          /\ \A ks \in DOMAIN compound.constraints_groups : UNIQUE_COORDS \notin ks
          /\ \A a \in VisibleKeys \ {UNIQUE_COORDS} :
                \A b \in VisibleKeys \ {UNIQUE_COORDS, a} :
                    b \in compound.connections[a] <=>
                        constraints.constraints_visible[a].scope
                            \cap constraints.constraints_visible[b].scope # {}
          /\ CompoundIteration(constraints, compound)
                = CompoundIteration(WithoutGlobal(constraints), compound)

\* C20: inside the loop the global constraint is visible and its scope
\* meets the scope of a local constraint that is connected to a second
\* local constraint and not connected to a third.
C20_Witness ==
    /\ pc = "compound_loop"
    /\ UNIQUE_COORDS \in VisibleKeys
    /\ \E a \in DOMAIN compound.connections :
         /\ compound.connections[a] # {}
         /\ DOMAIN compound.connections \ (compound.connections[a] \cup {a}) # {}
         /\ constraints.constraints_visible[a].scope
                \cap constraints.constraints_visible[UNIQUE_COORDS].scope # {}

\* The members of a sequence of coordinates are pairwise different.
NoRepeat(sq) == \A i \in 1..Len(sq) : \A j \in 1..Len(sq) : sq[i] = sq[j] => i = j

\* C21: in global_invariants UNIQUE_COORDS is the greatest visible key, so
\* the fold over the reversed map merges the global multiverse first, and
\* every other visible multiverse is merged exactly once after it.
C21_GlobalMergedFirst ==
    pc = "global_fold" =>
        LET order == GlobalFoldOrder(constraints)
            merged == Len(order) - Len(gfold.rest)
        IN /\ MaxCoords(VisibleKeys) = UNIQUE_COORDS
           /\ order[1] = UNIQUE_COORDS
           /\ NoRepeat(order)
           /\ SeqRange(order) = VisibleKeys
           /\ gfold.rest = SubSeq(order, merged + 1, Len(order))
           /\ gfold.mv = MergeAll(SeqRange(SubSeq(order, 1, merged)))

\* C22: when the findings of a round come from global_invariants, the
\* difficulty pushed with them is Global(k), k the number of entries of
\* constraints_visible, the global constraint among them, and k is the
\* number of multiverses the fold has merged (one poll before each).
C22_GlobalCountsVisible ==
    /\ [](pc = "push" /\ difficulty[1] = "Global" =>
            /\ UNIQUE_COORDS \in VisibleKeys
            /\ difficulty = Global(Cardinality(VisibleKeys))
            /\ gfold.rest = <<>>
            /\ difficulty[2] = Len(GlobalFoldOrder(constraints))
            /\ difficulty[2] = env.polls - gfold.polls0
            /\ invariants = Mv_invariants(MergeAll(VisibleKeys)))
    /\ [][pc = "global_fold" /\ pc' = "push" =>
            /\ difficulty' = Global(Cardinality(VisibleKeys))
            /\ constraints' = constraints]_vars
    /\ [][pc = "push" /\ difficulty[1] = "Global" =>
            history'[Len(history')].difficulty = Global(Cardinality(VisibleKeys))]_vars

\* C22: a round whose findings the global fold produced from three or
\* more visible constraints while a constraint is still hidden.
C22_Witness ==
    /\ pc = "update"
    /\ Len(history) >= 1
    /\ history[Len(history)].difficulty[1] = "Global"
    /\ history[Len(history)].difficulty[2] >= 3
    /\ history[Len(history)].difficulty[2] = Cardinality(VisibleKeys)
    /\ HiddenKeys # {}

\* The registry of a chain of n clues, with its blue count.
ChainRegistry(n) ==
    LET cells == {<<i, 10>> : i \in 1..(n + 1)}
    IN [constraints_hidden |-> <<>>,
        constraints_exhausted |-> {},
        constraints_visible |->
          [k \in {<<i, 0>> : i \in 1..n} \cup {UNIQUE_COORDS} |->
             IF k = UNIQUE_COORDS
             THEN [scope |-> cells,
                   worlds |-> {w \in SUBSET cells : Cardinality(w) = (n + 1) \div 2}]
             ELSE [scope |-> {<<k[1], 10>>, <<k[1] + 1, 10>>},
                   worlds |-> {{<<k[1], 10>>}, {<<k[1] + 1, 10>>}}]]]

\* The loop by group size goes as the loop on the groups of the chain:
\* the same iteration, difficulty, number and size of the groups and the
\* same break, iteration after iteration.
RECURSIVE ChainRunsAlike(_, _, _)
ChainRunsAlike(cs, loc, st) ==
    LET loc2 == CompoundIteration(cs, loc)
        st2 == ChainIter(st)
    IN /\ loc2.iteration = st2.iteration
       /\ loc2.difficulty = st2.difficulty
       /\ Cardinality(DOMAIN loc2.constraints_groups) = ChainGroupsLen(st2.n, st2.size)
       /\ \A ks \in DOMAIN loc2.constraints_groups : Cardinality(ks) = st2.size
       /\ DOMAIN loc2.invariants = {}
       /\ CompoundBreaks(loc2) = (st2.ret = "Ok")
       /\ CompoundBreaks(loc2) \/ ChainRunsAlike(cs, loc2, st2)

\* On the chains of up to five clues the two loops agree.
ChainModelAgrees ==
    \A n \in 1..5 :
        ChainRunsAlike(ChainRegistry(n), CompoundLocals(ChainRegistry(n)), ChainEnter(n))

\* C23: a call of compound_invariants never performs more than the cap of
\* 1000 widening iterations: when no invariant has been found and the
\* groups can still grow, the loop is left once 1000 iterations are done.
C23_AtMostCapIterations ==
    call.fn = "compound_invariants" => call.st.iteration <= ITERATION_CAP

\* C24: the keys of hidden, visible and exhausted are pairwise disjoint
\* and together they are, all along the solve, the clue-carrying cells of
\* the definition and the key of the global constraint; the lines and the
\* global constraint start visible, the zone-6 and zone-18 clues hidden.
C24_RegistryPartition ==
    /\ HiddenKeys \cap VisibleKeys = {}
    /\ HiddenKeys \cap ExhaustedKeys = {}
    /\ VisibleKeys \cap ExhaustedKeys = {}
    /\ HiddenKeys \cup VisibleKeys \cup ExhaustedKeys = ClueCells(defn) \cup {UNIQUE_COORDS}
    /\ (pc = "reveal" /\ history = <<>>) =>
          /\ constraints = Constraints_of_defn(defn)
          /\ VisibleKeys = {c \in DOMAIN defn : defn[c].kind = "Line"} \cup {UNIQUE_COORDS}
          /\ HiddenKeys = {c \in DOMAIN defn : defn[c].kind \in {"Zone6", "Zone18"}}
          /\ ExhaustedKeys = {}

\* C24: in a later round a zone clue is visible, another clue is still
\* hidden and a line is exhausted.
C24_Witness ==
    /\ Len(history) >= 1
    /\ VisibleKeys \cap InitialHiddenKeys # {}
    /\ HiddenKeys # {}
    /\ ExhaustedKeys \cap InitialVisibleKeys # {}

\* The sum of two entries of Pascal's triangle; an entry that does not
\* fit in 64 bits is <<"None">>.
PascalSum(a, b) ==
    IF a[1] = "None" \/ b[1] = "None" THEN <<"None">>
    ELSE LET sum == U64Add(a[2], b[2])
         IN IF sum.overflow THEN <<"None">> ELSE <<"Some", sum.value>>

\* The rows 0 .. n of Pascal's triangle, row m being C(m, 0) .. C(m, m):
\* ones at both ends, every other entry the sum of the two above it.
RECURSIVE PascalRows(_)
PascalRows(n) ==
    IF n = 0 THEN <<<<<<"Some", U64(1)>>>>>>
    ELSE LET rows == PascalRows(n - 1)
             row == rows[n]
         IN Append(rows,
                   [j \in 1..(n + 1) |->
                       IF j = 1 \/ j = n + 1 THEN <<"Some", U64(1)>>
                       ELSE PascalSum(row[j - 1], row[j])])

\* Pascal's triangle up to the greatest n of the calls.
PascalTriangle == PascalRows(MaxN)

\* Row n of Pascal's triangle.
PascalRow(n) == PascalTriangle[n + 1]

\* The product C(n, i) * (n - i) does not fit in 64 bits.
ProductTooBig(row, n, i) ==
    row[i + 1][1] = "None" \/ checked_mul(row[i + 1][2], n - i).overflow

\* C25 as claimed: n_choose_k(n, k) with k <= n returns None only when
\* C(n, k) does not fit in 64 bits, and Some(C(n, k)) whenever it fits.
C25_NoneOnlyWhenTooBig ==
    (call.fn = "n_choose_k" /\ call.st.ret \in {"Some", "None"}) =>
        LET coefficient == PascalRow(call.args[1])[call.args[2] + 1]
        IN IF coefficient[1] = "None"
           THEN call.st.ret = "None"
           ELSE call.st.ret = "Some" /\ call.st.result = coefficient[2]

\* C25 amended: n_choose_k(n, k) with k <= n returns None exactly when,
\* for some i below min(k, n - k), the product C(n, i) * (n - i) does not
\* fit in 64 bits, which is the case whenever C(n, k) does not fit and
\* also for coefficients that fit; a returned Some(v) is C(n, k), and up
\* to n = 62 no call returns None.
C25_NoneWhenProductTooBig ==
    (call.fn = "n_choose_k" /\ call.st.ret \in {"Some", "None"}) =>
        LET n == call.args[1]
            k == call.args[2]
            row == PascalRow(n)
            folded == IF k > n - k THEN n - k ELSE k
        IN /\ call.st.ret = "None" <=> \E i \in 0..(folded - 1) : ProductTooBig(row, n, i)
           /\ row[k + 1][1] = "None" => call.st.ret = "None"
           /\ call.st.ret = "Some" => row[k + 1] = <<"Some", call.st.result>>
           /\ n <= 62 => call.st.ret = "Some"

\* C25: a call that returns None for a coefficient that fits in 64 bits.
C25_Witness ==
    /\ call.fn = "n_choose_k"
    /\ call.st.ret = "None"
    /\ PascalRow(call.args[1])[call.args[2] + 1][1] = "Some"

\* C26: when progress is not solved after the reveal, narrow and gc of a
\* round, the registry is not solved either: the global blue-count
\* constraint is still visible, its scope the unknown cells; the assertion
\* assert!(!constraints.is_solved()) never fails.
C26_UnsolvedRegistry ==
    /\ (pc = "check" /\ ~Progress_is_solved(progress)) =>
         /\ ~Constraints_is_solved(constraints)
         /\ UNIQUE_COORDS \in VisibleKeys
         /\ constraints.constraints_visible[UNIQUE_COORDS].scope = progress.unknowns
    /\ outcome # <<"Panic", "not_is_solved">>
    /\ pc \in TierPositions \ {"check"} => ~Constraints_is_solved(constraints)

\* C26: a later round in which cells are unknown while the global
\* constraint alone is left in the registry, every clue being exhausted.
C26_Witness ==
    /\ pc = "check"
    /\ ~Progress_is_solved(progress)
    /\ Len(history) >= 1
    /\ HiddenKeys = {}
    /\ VisibleKeys = {UNIQUE_COORDS}
    /\ ExhaustedKeys # {}

\* The findings so far have cells, share none, and together with the
\* unknown cells make up the cells unknown at the start.
HistoryPartition ==
    /\ \A i \in 1..Len(history) :
         /\ history[i].cells # {}
         /\ history[i].cells \subseteq InitialUnknowns
         /\ \A j \in 1..Len(history) :
              (i # j) => (history[i].cells \cap history[j].cells = {})
    /\ (pc # "update") => (progress.unknowns = InitialUnknowns \ HistoryCells)
    /\ (pc = "update") =>
         /\ history[Len(history)].cells \subseteq progress.unknowns
         /\ progress.unknowns \cup HistoryCells = InitialUnknowns
    /\ (outcome[1] = "Solved") =>
         /\ outcome[2] = history
         /\ HistoryCells = InitialUnknowns
    /\ (pc = "done" /\ InitialUnknowns = {}) => (outcome = <<"Solved", <<>>>>)

\* C27: every Findings of the history has cells, the cell sets of two
\* Findings are disjoint, the cells of a Findings were unknown when its
\* round started (they are unknown at the push and leave unknowns with
\* the update), and the cells of the history of Solved are the cells that
\* were unknown at the start: none for a puzzle revealed from the start,
\* which is Solved with an empty history.
C27_HistoryPartitionsUnknowns ==
    /\ []HistoryPartition
    /\ [][pc = "push" =>
            /\ DOMAIN invariants # {}
            /\ DOMAIN invariants \subseteq progress.unknowns
            /\ history' = Append(history, [difficulty |-> difficulty,
                                           cells |-> DOMAIN invariants])]_vars

\* C27: a Solved history of three rounds or more, one of them with
\* several cells.
C27_Witness ==
    /\ outcome[1] = "Solved"
    /\ Len(outcome[2]) >= 3
    /\ \E i \in 1..Len(outcome[2]) : Cardinality(outcome[2][i].cells) >= 2

\* C28: with N non-global visible constraints compound_invariants makes at
\* most N iterations: after iteration j the working set holds the
\* connected groups of j + 1 constraints and none of the groups it held
\* before, and it is empty as soon as no group has a neighbour outside.
C28_GroupsGrowByOne ==
    /\ [](pc = "compound_loop" =>
            LET N == Cardinality(LocalKeys)
                after == CompoundIteration(constraints, compound)
            IN /\ N >= 1
               /\ DOMAIN compound.constraints_groups # {}
               /\ DOMAIN compound.constraints_groups
                     = ConnectedGroups(compound.iteration + 1)
               /\ after.iteration = compound.iteration + 1
               /\ after.iteration <= N
               /\ \A ks \in DOMAIN after.constraints_groups :
                     /\ Cardinality(ks) = after.iteration + 1
                     /\ IsConnected(ks)
                     /\ ks \subseteq LocalKeys
               /\ DOMAIN after.constraints_groups = ConnectedGroups(after.iteration + 1)
               /\ DOMAIN after.constraints_groups \cap DOMAIN compound.constraints_groups = {}
               /\ (DOMAIN after.constraints_groups = {}) <=>
                     (\A ks \in DOMAIN compound.constraints_groups :
                         GroupNeighbors(compound.connections, ks) = {}))
    /\ [][pc = "compound_loop" => compound'.iteration <= Cardinality(LocalKeys)]_vars

\* C28: three connected constraints or more, no group of which has an
\* invariant: the loop is about to make its N-th iteration, which leaves
\* the working set empty.
C28_Witness ==
    /\ pc = "compound_loop"
    /\ Cardinality(LocalKeys) >= 3
    /\ compound.iteration = Cardinality(LocalKeys) - 1
    /\ DOMAIN CompoundIteration(constraints, compound).constraints_groups = {}

====
